---- MODULE Spec2Model ----
(***************************************************************************)
(* NSCCN: the Graph Store (nsccn/database.py), the Incremental Graph       *)
(* Builder and its debouncing event handler (nsccn/watcher.py) and the     *)
(* Causal Flow Engine (nsccn/graph.py).                                    *)
(*                                                                         *)
(* These specifications share the variables:                                *)
(*   SpecBuilder   the builder's handlers, one step per store commit,      *)
(*                 next to a changing filesystem and a concurrent reader   *)
(*   SpecEntities  the store's entity operations on their own              *)
(*   SpecEdges     the store's edge upserts on their own                   *)
(*   SpecDebounce  CodeFileHandler: queued events, the clock, the drain    *)
(*   SpecGraph     trace_path on bounded CALLS graphs                      *)
(*   SpecTraverse  traverse_downstream / traverse_upstream on such graphs  *)
(***************************************************************************)
EXTENDS Integers, Sequences, FiniteSets, TLC

VARIABLES
    entities,    \* table entities: a set of rows, PRIMARY KEY id
    edges,       \* table edges: a set of rows, PRIMARY KEY (source_id, relation, target_id)
    skeletons,   \* table skeletons: a set of rows, PRIMARY KEY file_path
    files,       \* the filesystem: path -> content version, or Absent
    fsops,       \* the number of changes made to the filesystem so far
    mtime,       \* the filesystem: path -> modification time of the file
    pc,          \* the builder thread's position
    loc,         \* the builder thread's local variables
    start,       \* history: the store when the running handler began
    last,        \* history: the handler that finished last
    seen,        \* history: what the concurrent reader observed last
    indexed,     \* history: path -> the content indexed last, and by which operation
    upserted,    \* history: id -> the entity of its most recent upsert, if not deleted since
    edgeCtx,     \* history: edge key -> the context of its most recent upsert
    now,         \* the clock, in ticks
    wake,        \* the time the processor loop's sleep ends
    pending_events, \* CodeFileHandler.pending_events: path -> (event_type, timestamp)
    to_process,  \* process_pending_events' local list, drained outside the lock
    burst,       \* history: per path, the burst of events that arrived last
    calls,       \* history: per path, the callback invocations of the burst invoked last
    trace,       \* the last trace_path call and its result
    walk,        \* the last traverse_downstream / traverse_upstream calls and their results
    reader,      \* a read_skeleton call: its position and local variables
    written,     \* history: the (path, modification time, content) of every write
    search,      \* the last search or _rrf_fuse call and its result
    fault,       \* the failures the builder meets, and history: what became of them
    tool,        \* the last call of a navigation tool, what failed in it, and its result
    parsed,      \* the syntax tree last parsed and what the parser extracted from it
    life         \* the watcher's running flag, stop event and processor loops

storeVars == <<entities, edges, skeletons>>
builderVars == <<files, fsops, mtime, pc, loc, start, last, seen, indexed>>
storeHist == <<upserted, edgeCtx>>
debounceVars == <<now, wake, pending_events, to_process, burst, calls>>
graphVars == <<trace, walk>>
skeletonVars == <<reader, written>>
searchVars == <<search>>
faultVars == <<fault>>
toolVars == <<tool, parsed, life>>
vars == <<storeVars, builderVars, storeHist, debounceVars, graphVars, skeletonVars, searchVars,
          faultVars, toolVars>>

None == "None"

\* the filesystem changes at most this many times
MaxFsOps == 2

\* the longest batch handed to upsert_entities_batch / upsert_edges_batch
MaxBatch == 2

\* the clock stops here
MaxTime == 4

\* the debounce window (debounce_ms), in ticks of the clock
DebounceDelay == 2

\* the largest limit handed to search; the sub-searches return up to twice as many
MaxLimit == 28

\* the CALLS graphs trace_path runs on have at most this many edges
MaxEdges == 4

\* the largest max_depth handed to trace_path
MaxTraceDepth == 2

\* definitions are nested at most this deep in the syntax trees that are parsed
MaxNesting == 2

(***************************************************************************)
(* Entity ids, as parser.py builds them: kind:file_path:qualified_name.    *)
(***************************************************************************)
Paths == {"f1.py", "f2.py"}

FuncId(path, name) == "func:" \o path \o ":" \o name

Relations == {"CALLS", "INHERITS", "MUTATES", "READS_CONFIG", "PROPAGATES_ERROR"}

(***************************************************************************)
(* Embeddings.  An entity's embedding is None or a float32 vector, here a  *)
(* sequence of 32-bit words; the store keeps its bytes (little endian).    *)
(***************************************************************************)
NoEmbedding == [none |-> TRUE, vec |-> <<>>]

Vec(v) == [none |-> FALSE, vec |-> v]

WordBytes(w) == << w % 256, (w \div 256) % 256, (w \div 65536) % 256, (w \div 16777216) % 256 >>

RECURSIVE tobytes(_)
tobytes(v) == IF v = <<>> THEN <<>> ELSE WordBytes(Head(v)) \o tobytes(Tail(v))

RECURSIVE frombuffer(_)
frombuffer(b) ==
    IF Len(b) < 4 THEN <<>>
    ELSE << b[1] + 256 * b[2] + 65536 * b[3] + 16777216 * b[4] >>
            \o frombuffer(SubSeq(b, 5, Len(b)))

NullBlob == [null |-> TRUE, bytes |-> <<>>]

\* database.py: embedding_blob = None, or entity['embedding'].tobytes()
EmbeddingBlob(emb) ==
    IF emb.none THEN NullBlob ELSE [null |-> FALSE, bytes |-> tobytes(emb.vec)]

\* database.py: if entity['embedding']: entity['embedding'] = np.frombuffer(...)
\* (NULL and the empty blob are both falsy and are returned as they are)
EmbeddingOfBlob(blob) ==
    IF blob.null \/ blob.bytes = <<>> THEN [none |-> blob.null, vec |-> <<>>]
    ELSE Vec(frombuffer(blob.bytes))

(***************************************************************************)
(* The Graph Store.  A table is a set of rows; INSERT OR REPLACE removes   *)
(* the rows that collide on the primary key and adds the new row.          *)
(***************************************************************************)
EntityRow(e) ==
    [id |-> e.id, file_path |-> e.file_path, data |-> e.data,
     embedding |-> EmbeddingBlob(e.embedding)]

EntityOfRow(r) ==
    [id |-> r.id, file_path |-> r.file_path, data |-> r.data,
     embedding |-> EmbeddingOfBlob(r.embedding)]

\* a plain INSERT that keeps the row it collides with
InsertEntityKeepingOld(tbl, row) == tbl \cup {row}

InsertOrReplaceEntity(tbl, row) == {r \in tbl : r.id # row.id} \cup {row}

upsert_entity(tbl, e) == InsertOrReplaceEntity(tbl, EntityRow(e))

RECURSIVE upsert_entities_batch(_, _)
upsert_entities_batch(tbl, es) ==
    IF es = <<>> THEN tbl
    ELSE upsert_entities_batch(InsertOrReplaceEntity(tbl, EntityRow(Head(es))), Tail(es))

\* SELECT * FROM entities WHERE id = ?  (fetchone: any one matching row)
get_entity_rows(tbl, id) == {EntityOfRow(r) : r \in {x \in tbl : x.id = id}}

get_entities_by_file(tbl, path) == {EntityOfRow(r) : r \in {x \in tbl : x.file_path = path}}

delete_entities_by_file(tbl, path) == {r \in tbl : r.file_path # path}

EdgeRow(s, rel, t, ctx) == [source_id |-> s, relation |-> rel, target_id |-> t, context |-> ctx]

SameKey(a, b) ==
    a.source_id = b.source_id /\ a.relation = b.relation /\ a.target_id = b.target_id

\* a plain INSERT that keeps the row it collides with
InsertEdgeKeepingOld(tbl, row) == tbl \cup {row}

InsertOrReplaceEdge(tbl, row) == {r \in tbl : ~SameKey(r, row)} \cup {row}

upsert_edge(tbl, s, rel, t, ctx) == InsertOrReplaceEdge(tbl, EdgeRow(s, rel, t, ctx))

RECURSIVE upsert_edges_batch(_, _)
upsert_edges_batch(tbl, es) ==
    IF es = <<>> THEN tbl
    ELSE upsert_edges_batch(InsertOrReplaceEdge(tbl, Head(es)), Tail(es))

get_edges_by_source(tbl, id, rel) == {r \in tbl : r.source_id = id /\ r.relation = rel}

get_edges_by_target(tbl, id, rel) == {r \in tbl : r.target_id = id /\ r.relation = rel}

\* the DELETE keyed on the other id column
delete_edges_by_target_column(tbl, id) == {r \in tbl : r.target_id # id}

delete_edges_by_source(tbl, id) == {r \in tbl : r.source_id # id}

upsert_skeleton(tbl, path, content, last_modified) ==
    {r \in tbl : r.file_path # path}
       \cup {[file_path |-> path, content |-> content, last_modified |-> last_modified]}

get_skeleton(tbl, path) == {r \in tbl : r.file_path = path}

delete_skeleton(tbl, path) == {r \in tbl : r.file_path # path}

(***************************************************************************)
(* The Structural Parser, as the builder sees it: a pure function of the   *)
(* file's content.  A content version stands for a source text:            *)
(*   v1   def a(): b()          def b(): pass                              *)
(*   v2   def a(): c()          def c(): pass                              *)
(*   v3   def a():                                                         *)
(*            def n(): b()      (n is nested: no entity, but edges)        *)
(*   v4   no definitions                                                   *)
(***************************************************************************)
Absent == "absent"

Contents == {"v1", "v2", "v3", "v4"}

\* the contents a path takes in the model
ContentsOf(p) == IF p = "f1.py" THEN Contents ELSE {"v1"}

\* an entity's other columns (name, lines, signature, docstring), as one value
ParsedEntity(path, name, lines) ==
    [id |-> FuncId(path, name), file_path |-> path, data |-> name \o "@" \o lines,
     embedding |-> NoEmbedding]

\* parser.py _extract_entities: a function nested in a function yields no entity
extract_entities(path, c) ==
    CASE c = "v1" -> << ParsedEntity(path, "a", "1-1"), ParsedEntity(path, "b", "2-2") >>
      [] c = "v2" -> << ParsedEntity(path, "a", "1-1"), ParsedEntity(path, "c", "2-2") >>
      [] c = "v3" -> << ParsedEntity(path, "a", "1-2") >>
      [] OTHER -> << >>

\* parser.py _extract_edges: a call is attributed to the innermost function on the
\* entity stack, the nested one included; the target is func:<file>:<callee>
extract_edges(path, c) ==
    CASE c = "v1" -> << EdgeRow(FuncId(path, "a"), "CALLS", FuncId(path, "b"), None) >>
      [] c = "v2" -> << EdgeRow(FuncId(path, "a"), "CALLS", FuncId(path, "c"), None) >>
      [] c = "v3" -> << EdgeRow(FuncId(path, "n"), "CALLS", FuncId(path, "b"), None) >>
      [] OTHER -> << >>

\* parser.py generate_skeleton: the file's path and the signatures of its definitions
generate_skeleton(path, c) ==
    "# " \o path \o
       (CASE c = "v1" -> " def a(): ... def b(): ..."
          [] c = "v2" -> " def a(): ... def c(): ..."
          [] c = "v3" -> " def a(): ..."
          [] OTHER -> "")

\* embeddings.py embed_entities_batch: one float32 vector per entity, computed from
\* its signature and docstring
EmbeddingWord(data) == IF data = "a@1-1" THEN 258 ELSE 16777220

embed_entities_batch(es) ==
    [i \in 1..Len(es) |-> [es[i] EXCEPT !.embedding = Vec(<< EmbeddingWord(es[i].data) >>)]]

Range(s) == {s[i] : i \in 1..Len(s)}

IdsOf(rows) == {r.id : r \in rows}

(***************************************************************************)
(* The Incremental Graph Builder.  Every store call commits on its own, so *)
(* every store call is one step; the builder runs one handler at a time.   *)
(***************************************************************************)
IdleLoc == [path |-> None, parse |-> None, removed |-> {}, ents |-> {}, todo |-> << >>]

NoStart == [entities |-> {}, edges |-> {}]

NoLast == [op |-> None, path |-> None, note |-> None]

NoRead == [path |-> None, view |-> NoStart, prev |-> NoStart, next |-> NoStart]

NoIndexed == [content |-> None, by |-> None]

\* _handle_file_updated, lines 186-210: exists, parse, existing and removed ids
UpdBegin(p) ==
    /\ pc = "idle"
    /\ start' = [entities |-> entities, edges |-> edges]
    /\ seen' = NoRead
    /\ IF files[p] = Absent
       THEN /\ pc' = "idle"
            /\ loc' = IdleLoc
            /\ last' = [op |-> "skipped", path |-> p, note |-> None]
       ELSE /\ pc' = "upd_loop"
            /\ loc' = [IdleLoc EXCEPT !.path = p, !.parse = files[p],
                         !.removed = IdsOf(get_entities_by_file(entities, p))
                                       \ IdsOf(Range(extract_entities(p, files[p])))]
            /\ last' = last
    /\ UNCHANGED <<storeVars, files, fsops, mtime, indexed>>

\* lines 213-215: for entity_id in removed_ids: delete_edges_by_source
UpdDeleteEdges ==
    /\ pc = "upd_loop"
    /\ \E id \in loc.removed :
          /\ edges' = delete_edges_by_source(edges, id)
          /\ loc' = [loc EXCEPT !.removed = @ \ {id}]
    /\ UNCHANGED <<entities, skeletons, files, fsops, mtime, pc, start, last, seen, indexed>>

\* line 219
UpdDeleteEntities ==
    /\ pc = "upd_loop"
    /\ loc.removed = {}
    /\ entities' = delete_entities_by_file(entities, loc.path)
    /\ pc' = "upd_entities"
    /\ UNCHANGED <<edges, skeletons, files, fsops, mtime, loc, start, last, seen, indexed>>

\* only the added ids are inserted again
UpdUpsertEntitiesAddedOnly ==
    /\ pc = "upd_entities"
    /\ LET existing_ids == IdsOf(get_entities_by_file(start.entities, loc.path))
           added == SelectSeq(extract_entities(loc.path, loc.parse),
                              LAMBDA e : e.id \notin existing_ids)
       IN  entities' = IF added # << >>
                       THEN upsert_entities_batch(entities, embed_entities_batch(added))
                       ELSE entities
    /\ pc' = "upd_edges"
    /\ UNCHANGED <<edges, skeletons, files, fsops, mtime, loc, start, last, seen, indexed>>

\* lines 222-228
UpdUpsertEntities ==
    /\ pc = "upd_entities"
    /\ LET new_entities == extract_entities(loc.path, loc.parse)
       IN  entities' = IF new_entities # << >>
                       THEN upsert_entities_batch(entities, embed_entities_batch(new_entities))
                       ELSE entities
    /\ pc' = "upd_edges"
    /\ UNCHANGED <<edges, skeletons, files, fsops, mtime, loc, start, last, seen, indexed>>

\* lines 231-232
UpdUpsertEdges ==
    /\ pc = "upd_edges"
    /\ LET new_edges == extract_edges(loc.path, loc.parse)
       IN  edges' = IF new_edges # << >> THEN upsert_edges_batch(edges, new_edges) ELSE edges
    /\ pc' = "upd_skeleton"
    /\ UNCHANGED <<entities, skeletons, files, fsops, mtime, loc, start, last, seen, indexed>>

\* line 235, and the handler returns
UpdDeleteSkeleton ==
    /\ pc = "upd_skeleton"
    /\ skeletons' = delete_skeleton(skeletons, loc.path)
    /\ pc' = "idle"
    /\ loc' = IdleLoc
    /\ last' = [op |-> "updated", path |-> loc.path,
                note |-> IF indexed[loc.path] = [content |-> loc.parse, by |-> "updated"]
                         THEN "repeat" ELSE None]
    /\ seen' = NoRead
    /\ start' = NoStart
    /\ indexed' = [indexed EXCEPT ![loc.path] = [content |-> loc.parse, by |-> "updated"]]
    /\ UNCHANGED <<entities, edges, files, fsops, mtime>>

\* _handle_file_deleted, line 242: entities = get_entities_by_file
DelBegin(p) ==
    /\ pc = "idle"
    /\ start' = [entities |-> entities, edges |-> edges]
    /\ seen' = NoRead
    /\ pc' = "del_loop"
    /\ loc' = [IdleLoc EXCEPT !.path = p, !.ents = IdsOf(get_entities_by_file(entities, p))]
    /\ UNCHANGED <<storeVars, files, fsops, mtime, last, indexed>>

\* lines 245-246: for entity in entities: delete_edges_by_source
DelDeleteEdges ==
    /\ pc = "del_loop"
    /\ \E id \in loc.ents :
          /\ edges' = delete_edges_by_source(edges, id)
          /\ loc' = [loc EXCEPT !.ents = @ \ {id}]
    /\ UNCHANGED <<entities, skeletons, files, fsops, mtime, pc, start, last, seen, indexed>>

\* line 249
DelDeleteEntities ==
    /\ pc = "del_loop"
    /\ loc.ents = {}
    /\ entities' = delete_entities_by_file(entities, loc.path)
    /\ pc' = "del_skeleton"
    /\ UNCHANGED <<edges, skeletons, files, fsops, mtime, loc, start, last, seen, indexed>>

\* lines 252-255 (invalidate_cache is a no-op), and the handler returns
DelDeleteSkeleton ==
    /\ pc = "del_skeleton"
    /\ skeletons' = delete_skeleton(skeletons, loc.path)
    /\ pc' = "idle"
    /\ loc' = IdleLoc
    /\ last' = [op |-> "deleted", path |-> loc.path,
                note |-> IF \E e \in start.edges :
                                 e.source_id \in IdsOf(get_entities_by_file(start.entities, loc.path))
                         THEN "rows" ELSE None]
    /\ seen' = NoRead
    /\ start' = NoStart
    /\ indexed' = [indexed EXCEPT ![loc.path] = NoIndexed]
    /\ UNCHANGED <<entities, edges, files, fsops, mtime>>

\* build_initial_index, lines 275-281: the files found, in the order rglob yields them
Orders(S) == {q \in UNION {[1..n -> S] : n \in 0..Cardinality(S)} :
                 /\ Len(q) = Cardinality(S)
                 /\ \A i, j \in 1..Len(q) : i # j => q[i] # q[j]}

IdxBegin ==
    /\ pc = "idle"
    /\ \E q \in Orders({p \in Paths : files[p] # Absent}) :
          loc' = [IdleLoc EXCEPT !.todo = q]
    /\ pc' = "idx_parse"
    /\ seen' = NoRead
    /\ UNCHANGED <<storeVars, files, fsops, mtime, start, last, indexed>>

\* lines 289-298: parse the next file; a file that cannot be read is skipped
IdxParse ==
    /\ pc = "idx_parse"
    /\ IF loc.todo = << >>
       THEN /\ pc' = "idle"
            /\ loc' = IdleLoc
            /\ start' = NoStart
       ELSE LET p == Head(loc.todo)
            IN  IF files[p] = Absent
                THEN /\ pc' = "idx_parse"
                     /\ loc' = [loc EXCEPT !.todo = Tail(@)]
                     /\ start' = start
                ELSE /\ pc' = "idx_entities"
                     /\ loc' = [loc EXCEPT !.path = p, !.parse = files[p]]
                     /\ start' = [entities |-> entities, edges |-> edges]
    /\ UNCHANGED <<storeVars, files, fsops, mtime, last, seen, indexed>>

\* lines 300-308
IdxUpsertEntities ==
    /\ pc = "idx_entities"
    /\ LET new_entities == extract_entities(loc.path, loc.parse)
       IN  entities' = IF new_entities # << >>
                       THEN upsert_entities_batch(entities, embed_entities_batch(new_entities))
                       ELSE entities
    /\ pc' = "idx_edges"
    /\ UNCHANGED <<edges, skeletons, files, fsops, mtime, loc, start, last, seen, indexed>>

\* lines 310-313, and on to the next file
IdxUpsertEdges ==
    /\ pc = "idx_edges"
    /\ LET new_edges == extract_edges(loc.path, loc.parse)
       IN  edges' = IF new_edges # << >> THEN upsert_edges_batch(edges, new_edges) ELSE edges
    /\ pc' = "idx_parse"
    /\ loc' = [loc EXCEPT !.todo = Tail(@), !.path = None, !.parse = None]
    /\ last' = [op |-> "indexed", path |-> loc.path,
                note |-> IF indexed[loc.path] = [content |-> loc.parse, by |-> "indexed"]
                         THEN "repeat" ELSE None]
    /\ indexed' = [indexed EXCEPT ![loc.path] = [content |-> loc.parse, by |-> "indexed"]]
    /\ UNCHANGED <<entities, skeletons, files, fsops, mtime, start, seen>>

(***************************************************************************)
(* _handle_file_updated as a whole: the store it leaves when it runs from  *)
(* the store st on a file whose content is c.                              *)
(***************************************************************************)
handle_file_updated(st, p, c) ==
    LET new_entities == extract_entities(p, c)
        new_edges == extract_edges(p, c)
        removed_ids == IdsOf(get_entities_by_file(st.entities, p)) \ IdsOf(Range(new_entities))
        kept == {e \in st.edges : e.source_id \notin removed_ids}
        cleared == delete_entities_by_file(st.entities, p)
    IN  [entities |-> IF new_entities # << >>
                      THEN upsert_entities_batch(cleared, embed_entities_batch(new_entities))
                      ELSE cleared,
         edges |-> IF new_edges # << >> THEN upsert_edges_batch(kept, new_edges) ELSE kept]

(***************************************************************************)
(* A reader on another thread (a tool call) and the filesystem.            *)
(***************************************************************************)
Names == {"a", "b", "c", "n"}

IdsOfFile(p) == {FuncId(p, n) : n \in Names}

\* what the store holds of one file: its entity rows and the edges leaving its ids
FileView(st, p) ==
    [entities |-> get_entities_by_file(st.entities, p),
     edges |-> {e \in st.edges : e.source_id \in IdsOfFile(p)}]

UpdatePcs == {"upd_loop", "upd_entities", "upd_edges", "upd_skeleton"}

\* get_entities_by_file / get_edges_by_source between two commits of the update
Read ==
    /\ pc \in UpdatePcs
    /\ seen' = [path |-> loc.path,
                view |-> FileView([entities |-> entities, edges |-> edges], loc.path),
                prev |-> FileView(start, loc.path),
                next |-> FileView(handle_file_updated(start, loc.path, loc.parse), loc.path)]
    /\ UNCHANGED <<storeVars, files, fsops, mtime, pc, loc, start, last, indexed>>

\* tools.py read_skeleton, lines 90-99: render the file and cache the rendering
CacheSkeleton(p) ==
    /\ files[p] # Absent
    /\ skeletons' = upsert_skeleton(skeletons, p, generate_skeleton(p, files[p]), mtime[p])
    /\ UNCHANGED <<entities, edges, builderVars>>

FsWrite(p, c) ==
    /\ fsops < MaxFsOps
    /\ files[p] # c
    /\ files' = [files EXCEPT ![p] = c]
    /\ fsops' = fsops + 1
    /\ mtime' = [mtime EXCEPT ![p] = fsops + 1]
    /\ UNCHANGED <<storeVars, pc, loc, start, last, seen, indexed>>

FsDelete(p) ==
    /\ fsops < MaxFsOps
    /\ files[p] # Absent
    /\ files' = [files EXCEPT ![p] = Absent]
    /\ fsops' = fsops + 1
    /\ mtime' = [mtime EXCEPT ![p] = fsops + 1]
    /\ UNCHANGED <<storeVars, pc, loc, start, last, seen, indexed>>

(***************************************************************************)
(* Values of the variables a specification does not use.                   *)
(***************************************************************************)
StoreEmpty == entities = {} /\ edges = {} /\ skeletons = {}

BuilderIdle ==
    /\ files = [p \in Paths |-> Absent]
    /\ fsops = 0
    /\ mtime = [p \in Paths |-> 0]
    /\ pc = "idle"
    /\ loc = IdleLoc
    /\ start = NoStart
    /\ last = NoLast
    /\ seen = NoRead
    /\ indexed = [p \in Paths |-> NoIndexed]

StoreHistIdle == upserted = << >> /\ edgeCtx = << >>

DebounceIdle ==
    /\ now = 0
    /\ wake = 0
    /\ pending_events = << >>
    /\ to_process = << >>
    /\ burst = << >>
    /\ calls = << >>

GraphIdle == trace = << >> /\ walk = << >>

SkeletonIdle == reader = << >> /\ written = {}

SearchIdle == search = << >>

FaultIdle == fault = << >>

ToolIdle == tool = << >>

ParserIdle == parsed = << >>

LifeIdle == life = << >>

ToolsIdle == ToolIdle /\ ParserIdle /\ LifeIdle

(***************************************************************************)
(* SpecBuilder                                                             *)
(***************************************************************************)
InitBuilder ==
    StoreEmpty /\ BuilderIdle /\ StoreHistIdle /\ DebounceIdle /\ GraphIdle /\ SkeletonIdle /\ SearchIdle /\ FaultIdle /\ ToolsIdle

NextBuilder ==
    /\ \/ \E p \in Paths : UpdBegin(p)
       \/ UpdDeleteEdges
       \/ UpdDeleteEntities
       \/ UpdUpsertEntities
       \/ UpdUpsertEdges
       \/ UpdDeleteSkeleton
       \/ \E p \in Paths : DelBegin(p)
       \/ DelDeleteEdges
       \/ DelDeleteEntities
       \/ DelDeleteSkeleton
       \/ IdxBegin
       \/ IdxParse
       \/ IdxUpsertEntities
       \/ IdxUpsertEdges
       \/ Read
       \/ \E p \in Paths : CacheSkeleton(p)
       \/ \E p \in Paths : \E c \in ContentsOf(p) : FsWrite(p, c)
       \/ \E p \in Paths : FsDelete(p)
    /\ UNCHANGED <<storeHist, debounceVars, graphVars, skeletonVars, searchVars, faultVars, toolVars>>

SpecBuilder == InitBuilder /\ [][NextBuilder]_vars

(***************************************************************************)
(* The steps that end a handler, and the steps of the builder thread.      *)
(***************************************************************************)
UpdateReturns == pc = "upd_skeleton" /\ pc' = "idle"

DeleteReturns == pc = "del_skeleton" /\ pc' = "idle"

IndexedOneFile == pc = "idx_edges" /\ pc' = "idx_parse"

\* C1: a reader running while the builder updates a file sees the file's rows
\* (entities and edges) either as they were before the update or as the update
\* leaves them, never a state in between.
C1_ReaderSeesOldOrNew ==
    seen.path # None => seen.view \in {seen.prev, seen.next}

\* C2: when the update handler returns, the stored edges whose source is an entity
\* of the file are exactly the edges the new parse produced for those entities.
C2_EdgesAreTheNewParse ==
    [][UpdateReturns =>
        LET ids == IdsOf(get_entities_by_file(entities', loc.path))
        IN  {e \in edges' : e.source_id \in ids}
              = {e \in Range(extract_edges(loc.path, loc.parse)) : e.source_id \in ids}]_vars

\* C3: when a file has been parsed and stored, by the update handler or by
\* build_initial_index, get_entities_by_file returns exactly the entities of that
\* parse, whatever rows the store held before.
C3_EntitiesAreTheNewParse ==
    [][(UpdateReturns \/ IndexedOneFile) =>
        get_entities_by_file(entities', loc.path)
          = Range(embed_entities_batch(extract_entities(loc.path, loc.parse)))]_vars

\* C4: when the delete handler returns, the store holds no entity of the path, no
\* edge leaving an entity the path had, and no skeleton of the path; the rows of
\* the other files are as they were, and no step of the handler touches another
\* file's skeleton.
C4_DeletedFileIsGone ==
    [][/\ DeleteReturns =>
            LET ids == IdsOf(get_entities_by_file(start.entities, loc.path))
            IN  /\ get_entities_by_file(entities', loc.path) = {}
                /\ \A e \in edges' : e.source_id \notin ids
                /\ get_skeleton(skeletons', loc.path) = {}
                /\ entities' = {r \in start.entities : r.file_path # loc.path}
                /\ edges' = {e \in start.edges : e.source_id \notin ids}
       /\ (pc \in {"del_loop", "del_skeleton"} /\ <<pc, loc>>' # <<pc, loc>>) =>
            {r \in skeletons' : r.file_path # loc.path}
              = {r \in skeletons : r.file_path # loc.path}]_vars

\* the delete handler returned for a file that had entities with edges, and the
\* rows of the other file are still there
C4_Witness ==
    /\ pc = "idle"
    /\ last = [op |-> "deleted", path |-> "f1.py", note |-> "rows"]
    /\ get_entities_by_file(entities, "f2.py") # {}
    /\ edges # {}

\* C7: a second pass of the same kind over a file whose content did not change
\* leaves the store's entity ids and its edges as the pass found them.
C7_SecondPassChangesNothing ==
    [][(\/ UpdateReturns /\ indexed[loc.path] = [content |-> loc.parse, by |-> "updated"]
        \/ IndexedOneFile /\ indexed[loc.path] = [content |-> loc.parse, by |-> "indexed"])
        => /\ IdsOf(entities') = IdsOf(start.entities)
           /\ edges' = start.edges]_vars

\* a second modified event for an unchanged file with entities and edges was handled
C7_Witness ==
    /\ pc = "idle"
    /\ last.op = "updated"
    /\ last.note = "repeat"
    /\ get_entities_by_file(entities, last.path) # {}
    /\ edges # {}

(***************************************************************************)
(* SpecEntities: upsert_entity, upsert_entities_batch and                  *)
(* delete_entities_by_file called with any arguments, in any order.        *)
(***************************************************************************)
StoreIds == {"func:f1.py:a", "func:f1.py:b"}

EntityInputs ==
    [id : StoreIds, file_path : Paths, data : {"a@1-1", "a@1-2"},
     embedding : {NoEmbedding, Vec(<< 258, 16777220 >>)}]

Batches(S) == UNION {[1..n -> S] : n \in 1..MaxBatch}

NeverUpserted == [ent |-> {}, again |-> FALSE]

\* the history after the entities es were upserted in this order
RECURSIVE Remember(_, _)
Remember(h, es) ==
    IF es = << >> THEN h
    ELSE Remember([h EXCEPT ![Head(es).id] = [ent |-> {Head(es)}, again |-> @.ent # {}]],
                  Tail(es))

UpsertEntity(e) ==
    /\ entities' = upsert_entity(entities, e)
    /\ upserted' = Remember(upserted, << e >>)

UpsertEntitiesBatch(es) ==
    /\ entities' = upsert_entities_batch(entities, es)
    /\ upserted' = Remember(upserted, es)

DeleteEntitiesByFile(p) ==
    /\ entities' = delete_entities_by_file(entities, p)
    /\ upserted' = [id \in StoreIds |->
                      IF \E e \in upserted[id].ent : e.file_path = p
                      THEN [upserted[id] EXCEPT !.ent = {}] ELSE upserted[id]]

InitEntities ==
    /\ StoreEmpty
    /\ BuilderIdle
    /\ upserted = [id \in StoreIds |-> NeverUpserted]
    /\ edgeCtx = << >>
    /\ DebounceIdle
    /\ GraphIdle
    /\ SkeletonIdle /\ SearchIdle /\ FaultIdle /\ ToolsIdle

NextEntities ==
    /\ \/ \E e \in EntityInputs : UpsertEntity(e)
       \/ \E es \in Batches(EntityInputs) : UpsertEntitiesBatch(es)
       \/ \E p \in Paths : DeleteEntitiesByFile(p)
    /\ UNCHANGED <<edges, skeletons, builderVars, edgeCtx, debounceVars, graphVars, skeletonVars, searchVars, faultVars, toolVars>>

SpecEntities == InitEntities /\ [][NextEntities]_vars

\* C5: the store holds at most one row per id, and get_entity(id) returns the
\* field values of the most recent upsert of that id (nothing once a
\* delete_entities_by_file removed it).
C5_OneRowPerIdLatestWins ==
    \A id \in StoreIds : get_entity_rows(entities, id) = upserted[id].ent

\* an id was upserted again with other field values while the other id is stored too
C5_Witness ==
    \E id \in StoreIds :
       /\ upserted[id].again
       /\ upserted[id].ent # {}
       /\ Cardinality(entities) = 2

(***************************************************************************)
(* SpecEdges: upsert_edge and upsert_edges_batch called with any           *)
(* arguments, in any order.                                                *)
(***************************************************************************)
EdgeInputKeys ==
    { << "func:f1.py:a", "CALLS", "func:f1.py:b" >>,
      << "func:f1.py:b", "CALLS", "func:f1.py:b" >>,
      << "func:f1.py:a", "MUTATES", "func:f1.py:b" >>,
      << "func:f1.py:a", "CALLS", "func:f1.py:a" >> }

EdgeContexts == {None, "line:3 type:assignment"}

EdgeInputs == {EdgeRow(k[1], k[2], k[3], c) : k \in EdgeInputKeys, c \in EdgeContexts}

KeyOf(r) == << r.source_id, r.relation, r.target_id >>

NeverInserted == [ctx |-> {}, again |-> FALSE]

RECURSIVE RememberEdges(_, _)
RememberEdges(h, es) ==
    IF es = << >> THEN h
    ELSE RememberEdges([h EXCEPT ![KeyOf(Head(es))] =
                            [ctx |-> {Head(es).context}, again |-> @.ctx # {}]],
                       Tail(es))

UpsertEdge(r) ==
    /\ edges' = upsert_edge(edges, r.source_id, r.relation, r.target_id, r.context)
    /\ edgeCtx' = RememberEdges(edgeCtx, << r >>)

UpsertEdgesBatch(es) ==
    /\ edges' = upsert_edges_batch(edges, es)
    /\ edgeCtx' = RememberEdges(edgeCtx, es)

InitEdges ==
    /\ StoreEmpty
    /\ BuilderIdle
    /\ upserted = << >>
    /\ edgeCtx = [k \in EdgeInputKeys |-> NeverInserted]
    /\ DebounceIdle
    /\ GraphIdle
    /\ SkeletonIdle /\ SearchIdle /\ FaultIdle /\ ToolsIdle

NextEdges ==
    /\ \/ \E r \in EdgeInputs : UpsertEdge(r)
       \/ \E es \in Batches(EdgeInputs) : UpsertEdgesBatch(es)
    /\ UNCHANGED <<entities, skeletons, builderVars, upserted, debounceVars, graphVars, skeletonVars, searchVars, faultVars, toolVars>>

SpecEdges == InitEdges /\ [][NextEdges]_vars

\* C6: the store holds exactly one edge for every key that was upserted, however
\* often, and that edge carries the context of the key's most recent upsert.
C6_OneEdgePerKeyLatestContext ==
    /\ \A k \in EdgeInputKeys :
          {r \in edges : KeyOf(r) = k} = {EdgeRow(k[1], k[2], k[3], c) : c \in edgeCtx[k].ctx}
    /\ Cardinality(edges) = Cardinality({k \in EdgeInputKeys : edgeCtx[k].ctx # {}})

\* a key was upserted again, next to the keys that differ from it in one column
C6_Witness ==
    /\ edgeCtx[<< "func:f1.py:a", "CALLS", "func:f1.py:b" >>].again
    /\ Cardinality(edges) = 4

(***************************************************************************)
(* The Causal Flow Engine: trace_path.  get_edges_by_source returns the    *)
(* rows in an order SQL leaves open: order[id] is the sequence of targets  *)
(* the store returns for id.  None is the empty list.                      *)
(***************************************************************************)
RECURSIVE dfs(_, _, _, _, _), try_edges(_, _, _, _, _), dfs_target_before_depth(_, _, _, _, _)

NotFound(visited) == [result |-> << >>, visited |-> visited]

\* the check of the target moved before the check of the depth
dfs_target_before_depth(cx, current_id, path, depth, visited) ==
    IF current_id = cx.target_id
    THEN [result |-> Append(path, current_id), visited |-> visited]
    ELSE IF depth > cx.max_depth \/ current_id \in visited
    THEN NotFound(visited)
    ELSE try_edges(cx, cx.order[current_id], Append(path, current_id), depth + 1,
                   visited \cup {current_id})

\* graph.py lines 254-274
dfs(cx, current_id, path, depth, visited) ==
    IF depth > cx.max_depth
    THEN NotFound(visited)
    ELSE IF current_id = cx.target_id
    THEN [result |-> Append(path, current_id), visited |-> visited]
    ELSE IF current_id \in visited
    THEN NotFound(visited)
    ELSE try_edges(cx, cx.order[current_id], Append(path, current_id), depth + 1,
                   visited \cup {current_id})

\* lines 268-274: for edge in edges: ... if result: return result
try_edges(cx, targets, path, depth, visited) ==
    IF targets = << >>
    THEN NotFound(visited)
    ELSE LET r == dfs(cx, Head(targets), path, depth, visited)
         IN  IF r.result # << >> THEN r
             ELSE try_edges(cx, Tail(targets), path, depth, r.visited)

\* lines 237-276
trace_path(order, source_id, target_id, max_depth) ==
    dfs([order |-> order, target_id |-> target_id, max_depth |-> max_depth],
        source_id, << >>, 0, {}).result

GraphNodes == IdsOfFile("f1.py")

CallsTargets(tbl, id) == {r.target_id : r \in get_edges_by_source(tbl, id, "CALLS")}

\* every way the store can order the rows of every get_edges_by_source call
RECURSIVE EdgeOrders(_, _)
EdgeOrders(tbl, nodes) ==
    IF nodes = {} THEN { << >> }
    ELSE LET n == CHOOSE x \in nodes : TRUE
         IN  {(n :> q) @@ f : q \in Orders(CallsTargets(tbl, n)),
                              f \in EdgeOrders(tbl, nodes \ {n})}

CallsGraphs ==
    {g \in SUBSET {EdgeRow(s, "CALLS", t, None) : s \in GraphNodes, t \in GraphNodes} :
        Cardinality(g) <= MaxEdges}

NoTrace == [called |-> FALSE, source_id |-> None, target_id |-> None, max_depth |-> 0,
            result |-> << >>]

TracePath(s, t, d) ==
    /\ ~trace.called
    /\ \E order \in EdgeOrders(edges, GraphNodes) :
          trace' = [called |-> TRUE, source_id |-> s, target_id |-> t, max_depth |-> d,
                    result |-> trace_path(order, s, t, d)]
    /\ UNCHANGED edges

InitGraph ==
    /\ entities = {}
    /\ edges \in CallsGraphs
    /\ skeletons = {}
    /\ BuilderIdle
    /\ StoreHistIdle
    /\ DebounceIdle
    /\ trace = NoTrace
    /\ walk = << >>
    /\ SkeletonIdle /\ SearchIdle /\ FaultIdle /\ ToolsIdle

NextGraph ==
    /\ \E s \in GraphNodes, t \in GraphNodes, d \in 0..MaxTraceDepth : TracePath(s, t, d)
    /\ UNCHANGED <<entities, skeletons, builderVars, storeHist, debounceVars, walk, skeletonVars, searchVars, faultVars, toolVars>>

SpecGraph == InitGraph /\ [][NextGraph]_vars

\* the ids a walk of at most k CALLS edges from the ids in S ends at
RECURSIVE Within(_, _, _)
Within(tbl, S, k) ==
    IF k = 0 THEN S
    ELSE Within(tbl, S \cup UNION {CallsTargets(tbl, x) : x \in S}, k - 1)

\* C9: trace_path returns None only if no path of at most max_depth CALLS edges
\* leads from the source to the target.
C9_NoneOnlyIfNoPath ==
    (trace.called /\ trace.result = << >>) =>
        trace.target_id \notin Within(edges, {trace.source_id}, trace.max_depth)

\* C10: a returned list starts with the source, ends with the target, follows
\* stored CALLS edges, repeats no id and has at most max_depth edges;
\* trace_path(x, x) returns [x].
C10_ReturnedPathIsAPath ==
    trace.called =>
       LET path == trace.result
       IN  /\ path # << >> =>
                /\ path[1] = trace.source_id
                /\ path[Len(path)] = trace.target_id
                /\ \A i \in 1..(Len(path) - 1) :
                      EdgeRow(path[i], "CALLS", path[i + 1], None) \in edges
                /\ \A i, j \in 1..Len(path) : i # j => path[i] # path[j]
                /\ Len(path) - 1 <= trace.max_depth
           /\ trace.source_id = trace.target_id => path = << trace.source_id >>

\* a path of max_depth edges was returned although the first edge tried led elsewhere
C10_Witness ==
    /\ trace.called
    /\ Len(trace.result) = 3
    /\ trace.max_depth = 2
    /\ Cardinality(CallsTargets(edges, trace.source_id)) >= 2

(***************************************************************************)
(* CodeFileHandler and the processor loop.  _queue_event and the locked    *)
(* part of process_pending_events are one step each; the callbacks run     *)
(* outside the lock, one step each; the loop sleeps one window between     *)
(* two passes (and may oversleep).                                         *)
(***************************************************************************)
EventTypes == {"modified", "deleted"}

\* the timestamp of a path that is already pending is kept
queue_event_keeping_timestamp(pending, path, event_type, time) ==
    [pending EXCEPT ![path] =
        {[event_type |-> event_type,
          timestamp |-> IF pending[path] = {} THEN time
                        ELSE (CHOOSE e \in pending[path] : TRUE).timestamp]}]

\* watcher.py lines 53-56: pending_events[path] = (event_type, time.time())
queue_event(pending, path, event_type, time) ==
    [pending EXCEPT ![path] = {[event_type |-> event_type, timestamp |-> time]}]

\* lines 64-65: the paths whose entry is at least one window old
Due(pending, time) ==
    {p \in Paths : \E e \in pending[p] : time - e.timestamp >= DebounceDelay}

NoBurst == [n |-> 0, last_type |-> None, last_time |-> 0, missed |-> FALSE]

NoCalls == [n |-> 0, event_type |-> None, at |-> 0, burst_type |-> None, burst_time |-> 0 - 1]

\* history: an event less than one window after the previous one extends the burst,
\* a later one starts the next burst; the burst before it is missed if its entry
\* was still pending
Arrived(b, event_type, time, was_pending) ==
    IF b.n > 0 /\ time - b.last_time < DebounceDelay
    THEN [b EXCEPT !.n = 2, !.last_type = event_type, !.last_time = time]
    ELSE [n |-> 1, last_type |-> event_type, last_time |-> time,
          missed |-> b.missed \/ (b.n > 0 /\ was_pending)]

\* on_modified / on_deleted -> _queue_event
QueueEvent(p, t) ==
    /\ pending_events' = queue_event(pending_events, p, t, now)
    /\ burst' = [burst EXCEPT ![p] = Arrived(@, t, now, pending_events[p] # {})]
    /\ UNCHANGED <<now, wake, to_process, calls>>

\* process_pending_events, lines 60-67, after the sleep of _processor_loop
Drain ==
    /\ to_process = << >>
    /\ now >= wake
    /\ \E q \in Orders(Due(pending_events, now)) :
          to_process' = [i \in 1..Len(q) |->
                            [path |-> q[i],
                             event_type |-> (CHOOSE e \in pending_events[q[i]] : TRUE).event_type,
                             burst_type |-> burst[q[i]].last_type,
                             burst_time |-> burst[q[i]].last_time]]
    /\ pending_events' = [p \in Paths |->
                            IF p \in Due(pending_events, now) THEN {} ELSE pending_events[p]]
    /\ wake' = IF Due(pending_events, now) = {} THEN now + DebounceDelay ELSE wake
    /\ UNCHANGED <<now, burst, calls>>

\* lines 70-74: self.callback(path, event_type), for the next entry of to_process;
\* after the last one the loop sleeps (lines 163-164)
Callback ==
    /\ to_process # << >>
    /\ LET e == Head(to_process)
       IN  calls' = [calls EXCEPT ![e.path] =
                       [n |-> IF @.burst_time = e.burst_time THEN 2 ELSE 1,
                        event_type |-> e.event_type, at |-> now,
                        burst_type |-> e.burst_type, burst_time |-> e.burst_time]]
    /\ to_process' = Tail(to_process)
    /\ wake' = IF Len(to_process) = 1 THEN now + DebounceDelay ELSE wake
    /\ UNCHANGED <<now, pending_events, burst>>

Tick ==
    /\ now < MaxTime
    /\ now' = now + 1
    /\ UNCHANGED <<wake, pending_events, to_process, burst, calls>>

InitDebounce ==
    /\ StoreEmpty
    /\ BuilderIdle
    /\ StoreHistIdle
    /\ now = 0
    /\ wake = 0
    /\ pending_events = [p \in Paths |-> {}]
    /\ to_process = << >>
    /\ burst = [p \in Paths |-> NoBurst]
    /\ calls = [p \in Paths |-> NoCalls]
    /\ GraphIdle
    /\ SkeletonIdle /\ SearchIdle /\ FaultIdle /\ ToolsIdle

NextDebounce ==
    /\ \/ \E p \in Paths, t \in EventTypes : QueueEvent(p, t)
       \/ Drain
       \/ Callback
       \/ Tick
    /\ UNCHANGED <<storeVars, builderVars, storeHist, graphVars, skeletonVars, searchVars, faultVars, toolVars>>

SpecDebounce == InitDebounce /\ [][NextDebounce]_vars

InFlight(p) == \E i \in 1..Len(to_process) : to_process[i].path = p

\* the burst of p that arrived last was invoked exactly once when nothing of it is
\* left to process, and not at all before; an invocation carries the type of the
\* burst's last event and comes no earlier than one window after it
OneCallbackPerDrainedBurst ==
    \A p \in Paths :
       /\ calls[p].n <= 1
       /\ calls[p].n = 1 =>
             /\ calls[p].event_type = calls[p].burst_type
             /\ calls[p].at >= calls[p].burst_time + DebounceDelay
       /\ (burst[p].n > 0 /\ pending_events[p] = {} /\ ~InFlight(p)) =>
             (calls[p].n = 1 /\ calls[p].burst_time = burst[p].last_time)
       /\ (pending_events[p] # {} \/ InFlight(p)) =>
             calls[p].burst_time # burst[p].last_time

\* C8 (as amended): a burst of events, each less than one window after the previous
\* one, after which the path stays quiet until the processor drains its entry,
\* causes exactly one callback, with the type of the burst's last event and no
\* earlier than one window after that event.
C8_QuietBurstOneCallback == OneCallbackPerDrainedBurst

\* C8 (as claimed): every burst of events, each less than one window after the
\* previous one, causes exactly one callback of its own: none is missed.
C8_EveryBurstOneCallback ==
    /\ OneCallbackPerDrainedBurst
    /\ \A p \in Paths : ~burst[p].missed

\* a burst of two events of different types was invoked
C8_Witness ==
    \E p \in Paths :
       /\ burst[p].n = 2
       /\ calls[p].n = 1
       /\ calls[p].burst_time = burst[p].last_time
       /\ calls[p].event_type = "deleted"

(***************************************************************************)
(* The Causal Flow Engine: traverse_downstream and traverse_upstream.  The *)
(* two differ in the store query and the end of the edge they follow:      *)
(* cx.order[id] is the sequence of neighbours the query returns for id.    *)
(***************************************************************************)
CallsSources(tbl, id) == {r.source_id : r \in get_edges_by_target(tbl, id, "CALLS")}

\* every way the store can order the rows of every get_edges_by_target call
RECURSIVE CallerOrders(_, _)
CallerOrders(tbl, nodes) ==
    IF nodes = {} THEN { << >> }
    ELSE LET n == CHOOSE x \in nodes : TRUE
         IN  {(n :> q) @@ f : q \in Orders(CallsSources(tbl, n)),
                              f \in CallerOrders(tbl, nodes \ {n})}

\* lines 110-118: entities_info[current_id], if the store has a row for the id
EntityInfo(tbl, id) ==
    {[id |-> e.id, file_path |-> e.file_path, data |-> e.data] : e \in get_entity_rows(tbl, id)}

\* the depth is used as it is given
effective_depth_unclamped(depth, max_depth) == depth

\* lines 39, 98: depth = min(depth, self.max_depth)
effective_depth(depth, max_depth) == IF depth < max_depth THEN depth ELSE max_depth

NoWalkState == [visited |-> {}, adjacency_list |-> << >>, entities |-> {}, expanded |-> << >>]

RECURSIVE traverse(_, _, _, _), follow_edges(_, _, _, _, _), traverse_ignoring_visited(_, _, _, _)

\* the visited set is not consulted
traverse_ignoring_visited(cx, current_id, current_depth, st) ==
    IF current_depth > cx.depth
    THEN st
    ELSE follow_edges(cx, current_id, cx.order[current_id], current_depth,
            [visited |-> st.visited \cup {current_id},
             adjacency_list |-> IF current_id \in DOMAIN st.adjacency_list
                                THEN st.adjacency_list
                                ELSE (current_id :> << >>) @@ st.adjacency_list,
             entities |-> st.entities \cup EntityInfo(cx.entities, current_id),
             expanded |-> Append(st.expanded, current_id)])

\* graph.py lines 44-75 and 103-134; expanded is history: the ids in the order in
\* which they passed the guard
traverse(cx, current_id, current_depth, st) ==
    IF current_depth > cx.depth \/ current_id \in st.visited
    THEN st
    ELSE follow_edges(cx, current_id, cx.order[current_id], current_depth,
            [visited |-> st.visited \cup {current_id},
             adjacency_list |-> IF current_id \in DOMAIN st.adjacency_list
                                THEN st.adjacency_list
                                ELSE (current_id :> << >>) @@ st.adjacency_list,
             entities |-> st.entities \cup EntityInfo(cx.entities, current_id),
             expanded |-> Append(st.expanded, current_id)])

\* the loop over the edges ends after the first edge
follow_edges_first_only(cx, current_id, neighbours, current_depth, st) ==
    IF neighbours = << >>
    THEN st
    ELSE traverse(cx, Head(neighbours), current_depth + 1,
            [st EXCEPT !.adjacency_list[current_id] =
                Append(@, [target |-> Head(neighbours), relation |-> "CALLS"])])

\* lines 67-75 and 126-134: for edge in edges: append to adjacency_list, recurse
follow_edges(cx, current_id, neighbours, current_depth, st) ==
    IF neighbours = << >>
    THEN st
    ELSE follow_edges(cx, current_id, Tail(neighbours), current_depth,
            traverse(cx, Head(neighbours), current_depth + 1,
                [st EXCEPT !.adjacency_list[current_id] =
                    Append(@, [target |-> Head(neighbours), relation |-> "CALLS"])]))

\* lines 28-85 and 87-144: the result dict (and the history of expansions)
traverse_from(tbl, order, direction, entity_id, depth, max_depth) ==
    LET d == effective_depth(depth, max_depth)
        st == traverse([entities |-> tbl, order |-> order, depth |-> d], entity_id, 0,
                       NoWalkState)
    IN  [root |-> entity_id, direction |-> direction, depth |-> d,
         adjacency_list |-> st.adjacency_list, entities |-> st.entities,
         expanded |-> st.expanded]

traverse_downstream(tbl, order, entity_id, depth, max_depth) ==
    traverse_from(tbl, order, "downstream", entity_id, depth, max_depth)

traverse_upstream(tbl, order, entity_id, depth, max_depth) ==
    traverse_from(tbl, order, "upstream", entity_id, depth, max_depth)

\* the entities of v1 and v2 are stored; n, the nested function, has edges only
StoredEntities ==
    upsert_entities_batch({}, extract_entities("f1.py", "v1") \o extract_entities("f1.py", "v2"))

\* server.py: CausalFlowEngine(max_depth = config "max_traversal_depth"), set to 2 here
max_traversal_depth == 2

NoWalk == [called |-> FALSE, answered |-> FALSE]

\* traverse_downstream(e, depth)
TraverseDownstream(e, depth, max_depth) ==
    /\ ~walk.called
    /\ \E callees \in EdgeOrders(edges, GraphNodes) :
          walk' = [called |-> TRUE, answered |-> FALSE, e |-> e, given |-> depth,
                   max_depth |-> max_depth,
                   down |-> traverse_downstream(entities, callees, e, depth, max_depth)]
    /\ UNCHANGED <<storeVars, builderVars, storeHist, debounceVars, trace, skeletonVars, searchVars, faultVars, toolVars>>

\* traverse_upstream(f, depth), on the same store and with the same depth, from an
\* id the downstream traversal has reached (its root included)
TraverseUpstream(f) ==
    /\ walk.called
    /\ ~walk.answered
    /\ f \in DOMAIN walk.down.adjacency_list
    /\ \E callers \in CallerOrders(edges, GraphNodes) :
          walk' = [called |-> TRUE, answered |-> TRUE, e |-> walk.e, given |-> walk.given,
                   max_depth |-> walk.max_depth, down |-> walk.down, f |-> f,
                   up |-> traverse_upstream(entities, callers, f, walk.given, walk.max_depth)]
    /\ UNCHANGED <<storeVars, builderVars, storeHist, debounceVars, trace, skeletonVars, searchVars, faultVars, toolVars>>

InitTraverse ==
    /\ entities = StoredEntities
    /\ edges \in CallsGraphs
    /\ skeletons = {}
    /\ BuilderIdle
    /\ StoreHistIdle
    /\ DebounceIdle
    /\ trace = << >>
    /\ walk = NoWalk
    /\ SkeletonIdle /\ SearchIdle /\ FaultIdle /\ ToolsIdle

\* the depth asked for may exceed the configured maximum
NextTraverse ==
    \/ \E e \in GraphNodes, depth \in 0..(max_traversal_depth + 1) :
          TraverseDownstream(e, depth, max_traversal_depth)
    \/ \E f \in GraphNodes : TraverseUpstream(f)

SpecTraverse == InitTraverse /\ [][NextTraverse]_vars

\* C11: for stored entities E and F, if F is among the entities
\* traverse_downstream(E, d) returns, then E is among the entities
\* traverse_upstream(F, d) returns.
C11_UpstreamInvertsDownstream ==
    (walk.answered /\ walk.e \in IdsOf(entities)) =>
       ((\E x \in walk.down.entities : x.id = walk.f) =>
            (\E x \in walk.up.entities : x.id = walk.e))

\* the ids a walk of at most k CALLS edges, followed backwards, from the ids in S ends at
RECURSIVE WithinUp(_, _, _)
WithinUp(tbl, S, k) ==
    IF k = 0 THEN S
    ELSE WithinUp(tbl, S \cup UNION {CallsSources(tbl, x) : x \in S}, k - 1)

Targets(entries) == {entries[i].target : i \in 1..Len(entries)}

\* C12: for stored entities E and F with a stored CALLS edge E -> F and every
\* depth >= 1 (the configured maximum being at least 1), traverse_downstream(E, depth)
\* has F among its entities and an entry with target F in adjacency_list[E].
C12_DirectCalleeIsReturned ==
    (walk.called /\ walk.given >= 1 /\ walk.e \in IdsOf(entities)) =>
       \A f \in IdsOf(entities) :
          EdgeRow(walk.e, "CALLS", f, None) \in edges =>
             /\ \E x \in walk.down.entities : x.id = f
             /\ walk.e \in DOMAIN walk.down.adjacency_list
             /\ f \in Targets(walk.down.adjacency_list[walk.e])

\* E calls itself and another stored entity that calls E back; both are returned
C12_Witness ==
    /\ walk.called
    /\ walk.given >= 1
    /\ walk.e \in IdsOf(entities)
    /\ EdgeRow(walk.e, "CALLS", walk.e, None) \in edges
    /\ \E f \in IdsOf(entities) \ {walk.e} :
          /\ EdgeRow(walk.e, "CALLS", f, None) \in edges
          /\ EdgeRow(f, "CALLS", walk.e, None) \in edges
          /\ f \in Targets(walk.down.adjacency_list[walk.e])

\* an id is expanded at most once, is a key of adjacency_list exactly when it was
\* expanded, and its edges are listed once each
ExpandedOnce(r, neighbours(_)) ==
    /\ \A i, j \in 1..Len(r.expanded) : i # j => r.expanded[i] # r.expanded[j]
    /\ DOMAIN r.adjacency_list = Range(r.expanded)
    /\ \A id \in DOMAIN r.adjacency_list :
          /\ Targets(r.adjacency_list[id]) = neighbours(id)
          /\ Len(r.adjacency_list[id]) = Cardinality(neighbours(id))

\* C13: on every CALLS graph, cycles and self-referential edges included, both
\* traversals end having expanded each id at most once: each visited id is a key
\* of adjacency_list once, with its edges listed once.
C13_EachIdExpandedOnce ==
    /\ walk.called =>
          LET callees(id) == CallsTargets(edges, id) IN ExpandedOnce(walk.down, callees)
    /\ walk.answered =>
          LET callers(id) == CallsSources(edges, id) IN ExpandedOnce(walk.up, callers)

\* the root calls itself and lies on a cycle of two more ids, all within the depth
C13_Witness ==
    /\ walk.answered
    /\ walk.e = walk.f
    /\ EdgeRow(walk.e, "CALLS", walk.e, None) \in edges
    /\ \E x \in GraphNodes \ {walk.e} :
          /\ EdgeRow(walk.e, "CALLS", x, None) \in edges
          /\ EdgeRow(x, "CALLS", walk.e, None) \in edges
    /\ Len(walk.down.expanded) >= 2
    /\ Len(walk.up.expanded) >= 2

\* C14: both traversals use the depth min(depth, max_depth), report it, and have
\* among their entities and adjacency_list keys only ids within that many CALLS
\* hops of the root.
C14_DepthIsClamped ==
    walk.called =>
       LET d == IF walk.given < walk.max_depth THEN walk.given ELSE walk.max_depth
       IN  /\ walk.down.depth = d
           /\ IdsOf(walk.down.entities) \cup DOMAIN walk.down.adjacency_list
                 \subseteq Within(edges, {walk.e}, d)
           /\ walk.answered =>
                 /\ walk.up.depth = d
                 /\ IdsOf(walk.up.entities) \cup DOMAIN walk.up.adjacency_list
                       \subseteq WithinUp(edges, {walk.f}, d)

\* the depth asked for exceeds the configured maximum, and an id further away
\* than the maximum is left out
C14_Witness ==
    /\ walk.answered
    /\ walk.given > walk.max_depth
    /\ walk.down.depth = walk.max_depth
    /\ Within(edges, {walk.e}, walk.given) # Within(edges, {walk.e}, walk.max_depth)

(***************************************************************************)
(* read_skeleton (tools.py) next to a changing filesystem and the          *)
(* builder's invalidation.  Every store call and every look at the         *)
(* filesystem is one step.                                                 *)
(***************************************************************************)
ReaderIdle == [pc |-> "idle", path |-> None, cached |-> {}, skeleton |-> None, file_mtime |-> 0,
               returned |-> None, from_cache |-> FALSE]

ErrorResult == "{error: Failed to generate skeleton}"

\* tools.py line 79: cached = self.db.get_skeleton(file_path)
RsGetCached(p) ==
    /\ reader.pc = "idle"
    /\ reader' = [ReaderIdle EXCEPT !.pc = IF get_skeleton(skeletons, p) = {}
                                           THEN "rs_generate" ELSE "rs_check",
                                    !.path = p, !.cached = get_skeleton(skeletons, p)]
    /\ UNCHANGED <<storeVars, builderVars, written>>

\* lines 81-88: stat the file; return the cached content if the file is not newer
RsCheck ==
    /\ reader.pc = "rs_check"
    /\ LET row == CHOOSE r \in reader.cached : TRUE
       IN  reader' = IF files[reader.path] # Absent /\ mtime[reader.path] <= row.last_modified
                     THEN [reader EXCEPT !.pc = "idle", !.returned = row.content,
                                         !.from_cache = TRUE,
                                         !.file_mtime = mtime[reader.path]]
                     ELSE [reader EXCEPT !.pc = "rs_generate"]
    /\ UNCHANGED <<storeVars, builderVars, written>>

\* lines 91-94: skeleton = self.parser.generate_skeleton(file_path)
RsGenerate ==
    /\ reader.pc = "rs_generate"
    /\ reader' = IF files[reader.path] = Absent
                 THEN [reader EXCEPT !.pc = "idle", !.returned = ErrorResult]
                 ELSE [reader EXCEPT !.pc = "rs_stat",
                                     !.skeleton = generate_skeleton(reader.path, files[reader.path])]
    /\ UNCHANGED <<storeVars, builderVars, written>>

\* line 98: file_mtime = Path(file_path).stat().st_mtime (a failure skips the caching)
RsStat ==
    /\ reader.pc = "rs_stat"
    /\ reader' = IF files[reader.path] = Absent
                 THEN [reader EXCEPT !.pc = "idle", !.returned = reader.skeleton]
                 ELSE [reader EXCEPT !.pc = "rs_cache", !.file_mtime = mtime[reader.path]]
    /\ UNCHANGED <<storeVars, builderVars, written>>

\* lines 99-103: upsert_skeleton(file_path, skeleton, file_mtime); return skeleton
RsCache ==
    /\ reader.pc = "rs_cache"
    /\ skeletons' = upsert_skeleton(skeletons, reader.path, reader.skeleton, reader.file_mtime)
    /\ reader' = [reader EXCEPT !.pc = "idle", !.returned = reader.skeleton]
    /\ UNCHANGED <<entities, edges, builderVars, written>>

\* watcher.py lines 234-235 and 251-252: the builder's delete_skeleton for the path
InvalidateSkeleton(p) ==
    /\ get_skeleton(skeletons, p) # {}
    /\ skeletons' = delete_skeleton(skeletons, p)
    /\ UNCHANGED <<entities, edges, builderVars, reader, written>>

\* a write to the file, remembered with its modification time
WriteFile(p, c) ==
    /\ FsWrite(p, c)
    /\ written' = written \cup {[file_path |-> p, mtime |-> fsops + 1, content |-> c]}
    /\ UNCHANGED reader

RemoveFile(p) ==
    /\ FsDelete(p)
    /\ UNCHANGED <<reader, written>>

InitSkeleton ==
    /\ StoreEmpty
    /\ BuilderIdle
    /\ StoreHistIdle
    /\ DebounceIdle
    /\ GraphIdle
    /\ reader = ReaderIdle
    /\ written = {}
    /\ SearchIdle
    /\ FaultIdle /\ ToolsIdle

NextSkeleton ==
    /\ \/ \E p \in Paths : RsGetCached(p)
       \/ RsCheck
       \/ RsGenerate
       \/ RsStat
       \/ RsCache
       \/ \E p \in Paths : InvalidateSkeleton(p)
       \/ \E p \in Paths : \E c \in ContentsOf(p) : WriteFile(p, c)
       \/ \E p \in Paths : RemoveFile(p)
    /\ UNCHANGED <<storeHist, debounceVars, graphVars, searchVars, faultVars, toolVars>>

SpecSkeleton == InitSkeleton /\ [][NextSkeleton]_vars

\* C15: a cached content is returned only while the file is not newer than the
\* cache entry, and every cache entry (content, last_modified = t) holds the
\* rendering of the content the file had at modification time t, also when the
\* file changes or the entry is invalidated while a read_skeleton call is between
\* generating and caching.
C15_CacheEntryMatchesItsTime ==
    /\ (reader.pc = "idle" /\ reader.from_cache) =>
          \A r \in reader.cached : reader.file_mtime <= r.last_modified
    /\ \A r \in skeletons :
          \E w \in written :
             /\ w.file_path = r.file_path
             /\ w.mtime = r.last_modified
             /\ r.content = generate_skeleton(w.file_path, w.content)

\* a read returns from the cache the rendering of a content the file no longer has
C15_StaleRead ==
    /\ reader.pc = "idle"
    /\ reader.from_cache
    /\ files[reader.path] # Absent
    /\ reader.returned # generate_skeleton(reader.path, files[reader.path])

(***************************************************************************)
(* The Hybrid Search Engine (search.py).  A score 1/x + 1/y is kept as the *)
(* fraction (x + y) / (x * y); fractions are compared by cross             *)
(* multiplication.  A rank map is a function from the ids it ranks.        *)
(***************************************************************************)
rrf_k == 60

\* search.py lines 195-196: the rank of an id missing from a list
DefaultRank == 1000

Fraction(n, d) == [num |-> n, den |-> d]

FracEq(x, y) == x.num * y.den = y.num * x.den

FracLess(x, y) == x.num * y.den < y.num * x.den

\* 1/x + 1/y
SumOfReciprocals(x, y) == Fraction(x + y, x * y)

RankOf(ranks, id, default) == IF id \in DOMAIN ranks THEN ranks[id] ELSE default

\* the ranks are counted from 1
rrf_score_one_based(lexical_ranks, semantic_ranks, k, id) ==
    SumOfReciprocals(k + RankOf(lexical_ranks, id, DefaultRank) + 1,
                     k + RankOf(semantic_ranks, id, DefaultRank) + 1)

\* line 197: scores[entity] = 1/(k + lex_rank) + 1/(k + sem_rank)
rrf_score(lexical_ranks, semantic_ranks, k, id) ==
    SumOfReciprocals(k + RankOf(lexical_ranks, id, DefaultRank),
                     k + RankOf(semantic_ranks, id, DefaultRank))

\* line 199: sorted(scores.items(), key = score, reverse = True); the items come in
\* the iteration order of a set, so ids of equal score come in any order
RECURSIVE SortedByScore(_, _)
SortedByScore(scores, ids) ==
    IF ids = {} THEN { << >> }
    ELSE UNION {{<< [id |-> x, score |-> scores[x]] >> \o q : q \in SortedByScore(scores, ids \ {x})} :
                   x \in {y \in ids : \A z \in ids : ~FracLess(scores[y], scores[z])}}

\* lines 177-199: the lists _rrf_fuse can return
rrf_fuse(lexical_ranks, semantic_ranks, k) ==
    SortedByScore([id \in DOMAIN lexical_ranks \cup DOMAIN semantic_ranks |->
                      rrf_score(lexical_ranks, semantic_ranks, k, id)],
                  DOMAIN lexical_ranks \cup DOMAIN semantic_ranks)

SearchIds == {FuncId("f1.py", n) : n \in {"a", "b", "c", "d"}}

\* ranks of the ids of interest within lists of up to 2 * MaxLimit results
RankSamples == {0, 1, 2, 2 * MaxLimit - 1}

\* lines 50-51: {result['id']: rank for rank, result in enumerate(results)}
RankMaps ==
    UNION {{f \in [S -> RankSamples] : \A x, y \in S : x # y => f[x] # f[y]} :
              S \in SUBSET SearchIds}

\* _rrf_fuse(lexical_ranks, semantic_ranks, k = 60)
RrfFuse(lexical_ranks, semantic_ranks) ==
    /\ search.op = "none"
    /\ \E fused \in rrf_fuse(lexical_ranks, semantic_ranks, rrf_k) :
          search' = [op |-> "rrf_fuse", lexical_ranks |-> lexical_ranks,
                     semantic_ranks |-> semantic_ranks, fused |-> fused]
    /\ UNCHANGED <<storeVars, builderVars, storeHist, debounceVars, graphVars, skeletonVars,
                 faultVars, toolVars>>

\* the first n elements: results[:n]
Take(q, n) == IF Len(q) <= n THEN q ELSE SubSeq(q, 1, n)

\* enumerate(results): id -> position, counted from 0
RanksOf(results) == [id \in Range(results) |-> (CHOOSE i \in 1..Len(results) : results[i] = id) - 1]

\* what a sub-search meets: "ok" with the ranked ids it finds, or a failure
LexicalFailures == {"tool_missing", "exit_code", "timeout", "exception"}

SemanticFailures == {"exception"}

Returned(value) == [raised |-> None, value |-> value]

Raised(exception) == [raised |-> exception, value |-> << >>]

\* search.py lines 79-144: the body of the try block of _lexical_search
lexical_search_body(outcome, limit) ==
    CASE outcome.kind = "tool_missing" -> Raised("FileNotFoundError")
      [] outcome.kind = "timeout" -> Raised("TimeoutExpired")
      [] outcome.kind = "exception" -> Raised("Exception")
      [] outcome.kind = "exit_code" -> Returned(<< >>)
      [] OTHER -> Returned(Take(outcome.results, limit))

\* only the missing tool is caught
lexical_search_catching_tool_missing(outcome, limit) ==
    LET r == lexical_search_body(outcome, limit)
    IN  IF r.raised = "FileNotFoundError" THEN Returned(<< >>) ELSE r

\* lines 78-151: except FileNotFoundError: return []; except Exception: return []
lexical_search(outcome, limit) ==
    LET r == lexical_search_body(outcome, limit)
    IN  IF r.raised # None THEN Returned(<< >>) ELSE r

\* lines 164-175: embed the query, search the store; except Exception: return []
semantic_search(outcome, limit) ==
    LET r == IF outcome.kind = "exception" THEN Raised("Exception")
             ELSE Returned(Take(outcome.results, limit))
    IN  IF r.raised # None THEN Returned(<< >>) ELSE r

\* lines 57-62: the entities of the first limit fused ids that the store still has
final_results(tbl, fused, limit) ==
    SelectSeq(Take(fused, limit), LAMBDA x : get_entity_rows(tbl, x.id) # {})

\* lines 34-65: search(query, limit): the results it can return, or the exception
\* that leaves it
search_results(tbl, lexical, semantic, limit) ==
    LET lex == lexical_search(lexical, limit * 2)
        sem == semantic_search(semantic, limit * 2)
    IN  IF lex.raised # None THEN {lex}
        ELSE IF sem.raised # None THEN {sem}
        ELSE {Returned(final_results(tbl, fused, limit)) :
                 fused \in rrf_fuse(RanksOf(lex.value), RanksOf(sem.value), rrf_k)}

\* ranked lists of distinct ids
RankedLists == UNION {Orders(S) : S \in SUBSET SearchIds}

LexicalOutcomes ==
    {[kind |-> "ok", results |-> q] : q \in RankedLists}
       \cup {[kind |-> k, results |-> << >>] : k \in LexicalFailures}

SemanticOutcomes ==
    {[kind |-> "ok", results |-> q] : q \in RankedLists}
       \cup {[kind |-> k, results |-> << >>] : k \in SemanticFailures}

\* search(query, limit), the two sub-searches meeting the given outcomes
Search(lexical, semantic, limit) ==
    /\ search.op = "none"
    /\ \E r \in search_results(entities, lexical, semantic, limit) :
          search' = [op |-> "search", lexical |-> lexical, semantic |-> semantic,
                     limit |-> limit, raised |-> r.raised, results |-> r.value]
    /\ UNCHANGED <<storeVars, builderVars, storeHist, debounceVars, graphVars, skeletonVars,
                 faultVars, toolVars>>

NoSearch == [op |-> "none"]

InitSearch ==
    /\ entities = StoredEntities
    /\ edges = {}
    /\ skeletons = {}
    /\ BuilderIdle
    /\ StoreHistIdle
    /\ DebounceIdle
    /\ GraphIdle
    /\ SkeletonIdle
    /\ search = NoSearch
    /\ FaultIdle /\ ToolsIdle

\* one call, on the engine as constructed
NextSearch ==
    /\ search.op = "none"
    /\ \/ \E l \in RankMaps, m \in RankMaps : RrfFuse(l, m)
       \/ \E l \in LexicalOutcomes, m \in SemanticOutcomes, limit \in 1..2 : Search(l, m, limit)

SpecSearch == InitSearch /\ [][NextSearch]_vars

\* the ranks of the example: lexical a:0, b:1, c:2 and semantic b:0, c:1, d:2
ExampleFused ==
    /\ search.op = "rrf_fuse"
    /\ search.lexical_ranks = (FuncId("f1.py", "a") :> 0 @@ FuncId("f1.py", "b") :> 1
                                  @@ FuncId("f1.py", "c") :> 2)
    /\ search.semantic_ranks = (FuncId("f1.py", "b") :> 0 @@ FuncId("f1.py", "c") :> 1
                                   @@ FuncId("f1.py", "d") :> 2)

ScoreIn(fused, id) == (CHOOSE i \in 1..Len(fused) : fused[i].id = id)

C17_ConsensusAboveSingle ==
    search.op = "rrf_fuse" =>
       LET both == DOMAIN search.lexical_ranks \cap DOMAIN search.semantic_ranks
           all == DOMAIN search.lexical_ranks \cup DOMAIN search.semantic_ranks
           fused == search.fused
       IN  /\ {fused[i].id : i \in 1..Len(fused)} = all
           /\ \A i \in 1..Len(fused) :
                 FracEq(fused[i].score,
                        SumOfReciprocals(60 + RankOf(search.lexical_ranks, fused[i].id, 1000),
                                         60 + RankOf(search.semantic_ranks, fused[i].id, 1000)))
           /\ \A i, j \in 1..Len(fused) :
                 (fused[i].id \in both /\ fused[j].id \notin both) =>
                    (i < j /\ FracLess(fused[j].score, fused[i].score))

\* C18: when the lexical sub-search fails, search does not raise and returns what
\* fusing an empty lexical ranking with the semantic ranking gives; likewise with
\* the two exchanged.
C18_FailedStreamCountsAsEmpty ==
    search.op = "search" =>
       LET none == [kind |-> "ok", results |-> << >>]
           lexical == IF search.lexical.kind \in LexicalFailures THEN none ELSE search.lexical
           semantic == IF search.semantic.kind \in SemanticFailures THEN none ELSE search.semantic
       IN  /\ search.raised = None
           /\ \E fused \in rrf_fuse(RanksOf(Take(lexical.results, 2 * search.limit)),
                                    RanksOf(Take(semantic.results, 2 * search.limit)), rrf_k) :
                 search.results = final_results(entities, fused, search.limit)

\* the lexical sub-search timed out and the results are those of the semantic one
C18_Witness ==
    /\ search.op = "search"
    /\ search.lexical.kind = "timeout"
    /\ search.semantic.kind = "ok"
    /\ Len(search.results) = 2

(***************************************************************************)
(* SpecFaults: the builder when parsing, embedding or the store can fail.  *)
(* The files do not change while it runs.  parse_file returns None for a   *)
(* file it cannot parse (parser.py 25-53); embed_batch raises when the     *)
(* model cannot be loaded (embeddings.py 58-66, 106); no store method      *)
(* catches what sqlite3 raises (database.py 118-262).  build_initial_index *)
(* wraps each file in try/except Exception (watcher.py 290, 318-319) and   *)
(* _handle_file_change wraps the handler the same way (176-182).           *)
(***************************************************************************)
FaultKinds == {"embed", "store"}

NoFault == [op |-> "none", unparsable |-> {}, enumerated |-> {}, visited |-> << >>,
            failed |-> {}, store_failed |-> FALSE, raised |-> FALSE, returned |-> FALSE]

Started(op, enumerated) ==
    [NoFault EXCEPT !.op = op, !.unparsable = fault.unparsable, !.enumerated = enumerated]

\* lines 275-283: the files to index
BuildBegin ==
    /\ IdxBegin
    /\ fault' = Started("index", Range(loc'.todo))

\* lines 289-298 for a file that parses, and lines 321-322 when no file is left
BuildParse ==
    /\ IdxParse
    /\ loc.todo # << >> => Head(loc.todo) \notin fault.unparsable
    /\ fault' = IF loc.todo = << >>
                THEN [fault EXCEPT !.returned = TRUE]
                ELSE [fault EXCEPT !.visited = Append(@, Head(loc.todo))]

\* lines 292-295: parse_file returned None, continue with the next file
BuildParseFails ==
    /\ pc = "idx_parse"
    /\ loc.todo # << >>
    /\ Head(loc.todo) \in fault.unparsable
    /\ loc' = [loc EXCEPT !.todo = Tail(@)]
    /\ fault' = [fault EXCEPT !.visited = Append(@, Head(loc.todo)),
                              !.failed = @ \cup {Head(loc.todo)}]
    /\ UNCHANGED <<storeVars, files, fsops, mtime, pc, start, last, seen, indexed>>

\* no try around the body of the loop: the exception leaves build_initial_index
AbortAfter(kind) ==
    /\ pc' = "idle"
    /\ loc' = IdleLoc
    /\ fault' = [fault EXCEPT !.failed = @ \cup {loc.path},
                              !.store_failed = @ \/ kind = "store",
                              !.raised = TRUE, !.returned = TRUE]
    /\ UNCHANGED <<storeVars, files, fsops, mtime, start, last, seen, indexed>>

\* lines 318-319: the exception is logged and the loop goes on to the next file
NextFileAfter(kind) ==
    /\ pc' = "idx_parse"
    /\ loc' = [loc EXCEPT !.todo = Tail(@), !.path = None, !.parse = None]
    /\ fault' = [fault EXCEPT !.failed = @ \cup {loc.path},
                              !.store_failed = @ \/ kind = "store"]
    /\ UNCHANGED <<storeVars, files, fsops, mtime, start, last, seen, indexed>>

\* line 302: embed_entities_batch raises
BuildEmbedFails ==
    /\ pc = "idx_entities"
    /\ extract_entities(loc.path, loc.parse) # << >>
    /\ NextFileAfter("embed")

\* line 307 or line 312: the store call raises and nothing is committed
BuildStoreFails ==
    /\ \/ pc = "idx_entities" /\ extract_entities(loc.path, loc.parse) # << >>
       \/ pc = "idx_edges" /\ extract_edges(loc.path, loc.parse) # << >>
    /\ NextFileAfter("store")

BuildUpsertEntities == IdxUpsertEntities /\ UNCHANGED fault

BuildUpsertEdges == IdxUpsertEdges /\ UNCHANGED fault

\* _handle_file_change, lines 174-180, entering the handler of the event
HandlerBegin(p, event_type) ==
    /\ IF event_type = "deleted"
       THEN DelBegin(p)
       ELSE p \notin fault.unparsable /\ UpdBegin(p)
    /\ fault' = [Started(event_type, {p}) EXCEPT !.returned = pc' = "idle"]

\* lines 191-195: parse_file returned None, the handler returns
HandlerParseFails(p) ==
    /\ pc = "idle"
    /\ files[p] # Absent
    /\ p \in fault.unparsable
    /\ last' = [op |-> "skipped", path |-> p, note |-> None]
    /\ fault' = [Started("modified", {p}) EXCEPT !.failed = {p}, !.returned = TRUE]
    /\ UNCHANGED <<storeVars, files, fsops, mtime, pc, loc, start, seen, indexed>>

HandlerPcs == {"upd_loop", "upd_entities", "upd_edges", "upd_skeleton", "del_loop", "del_skeleton"}

\* the store calls of the handlers, lines 213-235 and 245-252
HandlerStep ==
    /\ \/ UpdDeleteEdges
       \/ UpdDeleteEntities
       \/ UpdUpsertEntities
       \/ UpdUpsertEdges
       \/ UpdDeleteSkeleton
       \/ DelDeleteEdges
       \/ DelDeleteEntities
       \/ DelDeleteSkeleton
    /\ fault' = [fault EXCEPT !.returned = pc' = "idle"]

\* lines 181-182: whatever the handler raises is logged, and _handle_file_change
\* returns to process_pending_events
HandlerFails(kind) ==
    /\ pc \in HandlerPcs
    /\ kind = "embed" =>
          pc = "upd_entities" /\ extract_entities(loc.path, loc.parse) # << >>
    /\ pc' = "idle"
    /\ loc' = IdleLoc
    /\ seen' = NoRead
    /\ start' = NoStart
    /\ fault' = [fault EXCEPT !.failed = {loc.path},
                              !.store_failed = kind = "store",
                              !.returned = TRUE]
    /\ UNCHANGED <<storeVars, files, fsops, mtime, last, indexed>>

InitFaults ==
    /\ StoreEmpty /\ StoreHistIdle /\ DebounceIdle /\ GraphIdle /\ SkeletonIdle /\ SearchIdle
    /\ ToolsIdle
    /\ files \in {f \in [Paths -> Contents \cup {Absent}] :
                     \A p \in Paths : f[p] \in ContentsOf(p) \cup {Absent}}
    /\ fsops = 0
    /\ mtime = [p \in Paths |-> 0]
    /\ pc = "idle"
    /\ loc = IdleLoc
    /\ start = NoStart
    /\ last = NoLast
    /\ seen = NoRead
    /\ indexed = [p \in Paths |-> NoIndexed]
    /\ \E u \in SUBSET Paths : fault = [NoFault EXCEPT !.unparsable = u]

NextFaults ==
    /\ \/ BuildBegin
       \/ BuildParse
       \/ BuildParseFails
       \/ BuildEmbedFails
       \/ BuildStoreFails
       \/ BuildUpsertEntities
       \/ BuildUpsertEdges
       \/ \E p \in Paths : \E event_type \in EventTypes : HandlerBegin(p, event_type)
       \/ \E p \in Paths : HandlerParseFails(p)
       \/ HandlerStep
       \/ \E kind \in FaultKinds : HandlerFails(kind)
    /\ UNCHANGED <<storeHist, debounceVars, graphVars, skeletonVars, searchVars, toolVars>>

SpecFaults == InitFaults /\ [][NextFaults]_vars

StoredFor(p) ==
    /\ IdsOf(Range(extract_entities(p, files[p]))) \subseteq IdsOf(get_entities_by_file(entities, p))
    /\ \A e \in Range(extract_edges(p, files[p])) :
          \E r \in edges : /\ r.source_id = e.source_id
                           /\ r.relation = e.relation
                           /\ r.target_id = e.target_id

IndexReturned == fault.op = "index" /\ fault.returned

\* C19: when build_initial_index has returned, it returned normally, it went through
\* every file it had enumerated, and the entities and edges of every file that met
\* no failure are in the store, whatever failed on the other files.
C19_FailureSkipsOneFile ==
    IndexReturned =>
        /\ ~fault.raised
        /\ Range(fault.visited) = fault.enumerated
        /\ \A p \in fault.enumerated \ fault.failed : StoredFor(p)

C19_Witness ==
    /\ IndexReturned
    /\ \E i, j \in 1..Len(fault.visited) :
          /\ i < j
          /\ fault.visited[i] \in fault.failed
          /\ fault.visited[i] \notin fault.unparsable
          /\ fault.visited[j] \notin fault.failed
          /\ get_entities_by_file(entities, fault.visited[j]) # {}
          /\ StoredFor(fault.visited[j])

\* C20: a store failure met while a file is indexed, updated or deleted reaches the
\* caller of the operation as an error.
C20_StoreFailureIsSurfaced ==
    fault.store_failed => fault.raised

(***************************************************************************)
(* The Causal Flow Engine: get_inheritance_chain.  get_parents follows the *)
(* INHERITS edges by source, get_children by target; cx.order[id] is the   *)
(* sequence of classes the store query returns for id.                     *)
(***************************************************************************)
ClassId(path, name) == "class:" \o path \o ":" \o name

ClassNodes == {ClassId("f1.py", name) : name \in {"A", "B", "C", "D"}}

InheritsOf(tbl, id, towards) ==
    IF towards = "parents"
    THEN {r.target_id : r \in get_edges_by_source(tbl, id, "INHERITS")}
    ELSE {r.source_id : r \in get_edges_by_target(tbl, id, "INHERITS")}

\* every way the store can order the rows of every query for INHERITS edges
RECURSIVE InheritOrders(_, _, _)
InheritOrders(tbl, nodes, towards) ==
    IF nodes = {} THEN { << >> }
    ELSE LET n == CHOOSE x \in nodes : TRUE
         IN  {(n :> q) @@ f : q \in Orders(InheritsOf(tbl, n, towards)),
                              f \in InheritOrders(tbl, nodes \ {n}, towards)}

NoRelatives == [visited |-> {}, found |-> << >>]

RECURSIVE get_parents(_, _, _, _), each_edge(_, _, _, _)

\* graph.py lines 173-179 and 203-209
get_parents(cx, current_id, depth, st) ==
    IF depth > cx.max_depth \/ current_id \in st.visited
    THEN st
    ELSE each_edge(cx, cx.order[current_id], depth,
                   [st EXCEPT !.visited = @ \cup {current_id}])

\* lines 180-196 and 210-226: for edge in edges: a relative the store has a row for
\* is appended with 'depth': depth, the depth of the class whose edge led to it
each_edge(cx, neighbours, depth, st) ==
    IF neighbours = << >>
    THEN st
    ELSE each_edge(cx, Tail(neighbours), depth,
            IF get_entity_rows(cx.entities, Head(neighbours)) = {}
            THEN st
            ELSE get_parents(cx, Head(neighbours), depth + 1,
                    [st EXCEPT !.found = Append(@, [id |-> Head(neighbours),
                                                    depth |-> depth])]))

\* lines 203-228: the same walk over the edges taken by target
get_children(cx, current_id, depth, st) == get_parents(cx, current_id, depth, st)

\* lines 146-235
get_inheritance_chain(tbl, parent_order, child_order, entity_id, max_depth) ==
    LET parents == get_parents([entities |-> tbl, order |-> parent_order,
                                max_depth |-> max_depth], entity_id, 0, NoRelatives).found
        children == get_children([entities |-> tbl, order |-> child_order,
                                  max_depth |-> max_depth], entity_id, 0, NoRelatives).found
    IN  [root |-> entity_id, parents |-> parents, children |-> children,
         entities |-> {id \in {entity_id} : get_entity_rows(tbl, id) # {}}
                         \cup {x.id : x \in Range(parents)} \cup {x.id : x \in Range(children)}]

(***************************************************************************)
(* SpecTools: the four navigation tools of tools.py, called one at a time  *)
(* on a store that can fail: a store query or a store write of the call    *)
(* raises sqlite3.Error.  A tool returns a JSON payload, here a record:    *)
(* the error payload is the record with the field error.                   *)
(***************************************************************************)
StoreFaults == {"query", "write"}

Directions == {"upstream", "downstream", "inheritance"}

ToolError(message) == [error |-> message]

HasError(payload) == "error" \in DOMAIN payload

\* the exception leaves the tool
reraise(r) == r

\* lines 61-63, 105-107, 140-142, 197-199:
\* except Exception as e: return json.dumps({'error': str(e)})
catch_exception(r) == IF r.raised # None THEN Returned(ToolError(r.raised)) ELSE r

\* lines 45-63; r is what self.search.search did
search_and_rank(r) == catch_exception(IF r.raised # None THEN r ELSE Returned([results |-> r.value]))

\* lines 77-107, with no write to the file during the call; content is Absent for
\* a file that cannot be read
read_skeleton(tbl, path, content, file_mtime, faults) ==
    catch_exception(
        IF "query" \in faults THEN Raised("sqlite3.Error")
        ELSE IF /\ content # Absent
                /\ \E cached \in get_skeleton(tbl, path) : file_mtime <= cached.last_modified
        THEN Returned([text |-> (CHOOSE cached \in get_skeleton(tbl, path) : TRUE).content])
        ELSE IF content = Absent
        THEN Returned(ToolError("Failed to generate skeleton"))
        ELSE Returned([text |-> generate_skeleton(path, content)]))

\* lines 96-101: the cache after the call
skeletons_after(tbl, path, content, file_mtime, faults) ==
    IF \/ faults # {}
       \/ content = Absent
       \/ \E cached \in get_skeleton(tbl, path) : file_mtime <= cached.last_modified
    THEN tbl
    ELSE upsert_skeleton(tbl, path, generate_skeleton(path, content), file_mtime)

\* lines 127-142; orders holds the order of the rows of every store query
trace_causal_path(ents, orders, entity_id, direction, depth, max_depth, faults) ==
    catch_exception(
        IF direction \notin Directions
        THEN Returned(ToolError("Invalid direction"))
        ELSE IF "query" \in faults THEN Raised("sqlite3.Error")
        ELSE IF direction = "upstream"
        THEN Returned(traverse_upstream(ents, orders.callers, entity_id, depth, max_depth))
        ELSE IF direction = "downstream"
        THEN Returned(traverse_downstream(ents, orders.callees, entity_id, depth, max_depth))
        ELSE Returned(get_inheritance_chain(ents, orders.parents, orders.children,
                                            entity_id, max_depth)))

\* lines 160-199: the window is the text of the file around the entity's lines
open_surgical_window(ents, fs, entity_id, faults) ==
    catch_exception(
        IF "query" \in faults THEN Raised("sqlite3.Error")
        ELSE IF get_entity_rows(ents, entity_id) = {}
        THEN Returned(ToolError("Entity not found"))
        ELSE LET entity == CHOOSE e \in get_entity_rows(ents, entity_id) : TRUE
             IN  IF fs[entity.file_path] = Absent
                 THEN Raised("FileNotFoundError")
                 ELSE Returned([entity_id |-> entity_id, file |-> entity.file_path,
                                code |-> fs[entity.file_path]]))

ToolIds == GraphNodes \cup {ClassId("f1.py", "A"), ClassId("f1.py", "B")}

\* what is stored: the functions a, b and c of f1.py and the class B; the function
\* n and the class A are not
ToolEntities ==
    upsert_entity(StoredEntities,
                  [ParsedEntity("f1.py", "B", "3-4") EXCEPT !.id = ClassId("f1.py", "B")])

ToolEdges ==
    {EdgeRow(FuncId("f1.py", "a"), "CALLS", FuncId("f1.py", "b"), None),
     EdgeRow(FuncId("f1.py", "b"), "CALLS", FuncId("f1.py", "n"), None),
     EdgeRow(FuncId("f1.py", "n"), "CALLS", FuncId("f1.py", "c"), None),
     EdgeRow(ClassId("f1.py", "B"), "INHERITS", ClassId("f1.py", "A"), None)}

NoTool == [op |-> "none"]

Called(op, entity_id, direction, failed, outcome) ==
    [op |-> op, entity_id |-> entity_id, direction |-> direction, failed |-> failed,
     raised |-> outcome.raised, payload |-> outcome.value]

\* search_and_rank(query, limit); the store can fail in the body of search
SearchAndRank(lexical, semantic, limit, faults) ==
    /\ \E r \in IF "query" \in faults
                THEN {Raised("sqlite3.Error")}
                ELSE search_results(entities, lexical, semantic, limit) :
          tool' = Called("search_and_rank", None, None,
                         IF "query" \in faults THEN {"store"} ELSE {}, search_and_rank(r))
    /\ UNCHANGED <<storeVars, builderVars>>

ReadSkeleton(p, faults) ==
    /\ tool' = Called("read_skeleton", None, None,
                      (IF "query" \in faults THEN {"store"} ELSE {})
                         \cup (IF files[p] = Absent THEN {"unreadable"} ELSE {}),
                      read_skeleton(skeletons, p, files[p], mtime[p], faults))
    /\ skeletons' = skeletons_after(skeletons, p, files[p], mtime[p], faults)
    /\ UNCHANGED <<entities, edges, builderVars>>

TraceCausalPath(entity_id, direction, depth, faults) ==
    /\ \E callers \in CallerOrders(edges, ToolIds), callees \in EdgeOrders(edges, ToolIds),
          parents \in InheritOrders(edges, ToolIds, "parents"),
          children \in InheritOrders(edges, ToolIds, "children") :
          tool' = Called("trace_causal_path", entity_id, direction,
                         (IF direction \notin Directions THEN {"direction"} ELSE {})
                            \cup (IF "query" \in faults THEN {"store"} ELSE {}),
                         trace_causal_path(entities,
                            [callers |-> callers, callees |-> callees,
                             parents |-> parents, children |-> children],
                            entity_id, direction, depth, max_traversal_depth, faults))
    /\ UNCHANGED <<storeVars, builderVars>>

OpenSurgicalWindow(entity_id, faults) ==
    /\ tool' = Called("open_surgical_window", entity_id, None,
                      (IF "query" \in faults THEN {"store"} ELSE {})
                         \cup (IF get_entity_rows(entities, entity_id) = {}
                               THEN {"unknown"} ELSE {})
                         \cup (IF \E e \in get_entity_rows(entities, entity_id) :
                                     files[e.file_path] = Absent
                               THEN {"unreadable"} ELSE {}),
                      open_surgical_window(entities, files, entity_id, faults))
    /\ UNCHANGED <<storeVars, builderVars>>

InitTools ==
    /\ entities = ToolEntities
    /\ edges \in SUBSET ToolEdges
    /\ skeletons \in {{}, upsert_skeleton({}, "f1.py", generate_skeleton("f1.py", "v1"), 1)}
    /\ files \in {f \in [Paths -> {"v1", "v2", Absent}] : f["f2.py"] = Absent}
    /\ fsops \in 1..2
    /\ mtime = [p \in Paths |-> IF p = "f1.py" THEN fsops ELSE 0]
    /\ pc = "idle"
    /\ loc = IdleLoc
    /\ start = NoStart
    /\ last = NoLast
    /\ seen = NoRead
    /\ indexed = [p \in Paths |-> NoIndexed]
    /\ StoreHistIdle /\ DebounceIdle /\ GraphIdle /\ SkeletonIdle /\ SearchIdle /\ FaultIdle
    /\ tool = NoTool
    /\ ParserIdle /\ LifeIdle

\* one call of one tool; the sub-searches return at most two ids
NextTools ==
    /\ tool.op = "none"
    /\ \/ \E l \in {x \in LexicalOutcomes : Len(x.results) <= 2},
             m \in {x \in SemanticOutcomes : Len(x.results) <= 2},
             faults \in SUBSET StoreFaults :
             SearchAndRank(l, m, 1, faults)
       \/ \E p \in Paths, faults \in SUBSET StoreFaults : ReadSkeleton(p, faults)
       \/ \E id \in ToolIds, direction \in Directions \cup {"sideways"},
             depth \in 0..max_traversal_depth, faults \in SUBSET StoreFaults :
             TraceCausalPath(id, direction, depth, faults)
       \/ \E id \in ToolIds, faults \in SUBSET StoreFaults : OpenSurgicalWindow(id, faults)
    /\ UNCHANGED <<storeHist, debounceVars, graphVars, skeletonVars, searchVars, faultVars,
                   parsed, life>>

SpecTools == InitTools /\ [][NextTools]_vars

UnknownEntityCall ==
    /\ tool.op \in {"open_surgical_window", "trace_causal_path"}
    /\ tool.direction \in Directions \cup {None}
    /\ get_entity_rows(entities, tool.entity_id) = {}

\* C21: open_surgical_window and trace_causal_path (upstream, downstream and
\* inheritance), called with an entity id the store does not have, return the error
\* payload: they neither raise nor return a result.
C21_UnknownEntityIsAnError ==
    UnknownEntityCall => tool.raised = None /\ HasError(tool.payload)

ClassEntities ==
    {EntityRow([ParsedEntity("f1.py", "X", "1-2") EXCEPT !.id = c]) : c \in ClassNodes}

InheritsGraphs ==
    {g \in SUBSET {EdgeRow(x[1], "INHERITS", x[2], None) :
                       x \in {y \in ClassNodes \X ClassNodes : y[1] # y[2]}} :
        Cardinality(g) <= MaxEdges}

\* get_inheritance_chain(c), the engine built with the configured maximum depth
GetInheritanceChain(c) ==
    /\ ~walk.called
    /\ \E parents \in InheritOrders(edges, ClassNodes, "parents"),
          children \in InheritOrders(edges, ClassNodes, "children") :
          walk' = [called |-> TRUE, answered |-> TRUE, root |-> c,
                   max_depth |-> max_traversal_depth,
                   chain |-> get_inheritance_chain(entities, parents, children, c,
                                                   max_traversal_depth)]
    /\ UNCHANGED <<storeVars, builderVars, storeHist, debounceVars, trace, skeletonVars,
                   searchVars, faultVars, toolVars>>

InitInherit ==
    /\ entities = ClassEntities
    /\ edges \in InheritsGraphs
    /\ skeletons = {}
    /\ BuilderIdle
    /\ StoreHistIdle
    /\ DebounceIdle
    /\ trace = << >>
    /\ walk = NoWalk
    /\ SkeletonIdle /\ SearchIdle /\ FaultIdle /\ ToolsIdle

NextInherit == \E c \in ClassNodes : GetInheritanceChain(c)

SpecInherit == InitInherit /\ [][NextInherit]_vars

\* the classes k INHERITS edges away from those of S, going to the parents or to
\* the children
RECURSIVE Relatives(_, _, _, _)
Relatives(tbl, S, towards, k) ==
    IF k = 0 THEN S
    ELSE Relatives(tbl, UNION {InheritsOf(tbl, id, towards) : id \in S}, towards, k - 1)

HopsAreDistances(entries, towards) ==
    \A x \in Range(entries) :
        /\ x.depth <= walk.max_depth
        /\ x.id \in Relatives(edges, {walk.root}, towards, x.depth)

\* C30: every entry of parents and of children carries the number of INHERITS edges
\* of a path between the root and that class (1 for a direct base or subclass), and
\* that number is at most max_depth.
C30_EntriesCarryHopDistance ==
    walk.called =>
        /\ HopsAreDistances(walk.chain.parents, "parents")
        /\ HopsAreDistances(walk.chain.children, "children")

(***************************************************************************)
(* Further properties of the traversals, checked under SpecTraverse.       *)
(***************************************************************************)
ClaimedDepth == IF walk.given < walk.max_depth THEN walk.given ELSE walk.max_depth

\* C25: traverse_downstream(E, d) has among its entities every stored entity that
\* a path of at most min(d, max_depth) CALLS edges from E leads to, in whatever order
\* the store returns the edges; traverse_upstream likewise over the reversed edges.
C25_EveryEntityWithinDepth ==
    /\ walk.called =>
          (Within(edges, {walk.e}, ClaimedDepth) \cap IdsOf(entities))
              \subseteq {x.id : x \in walk.down.entities}
    /\ walk.answered =>
          (WithinUp(edges, {walk.f}, ClaimedDepth) \cap IdsOf(entities))
              \subseteq {x.id : x \in walk.up.entities}

(***************************************************************************)
(* Further properties of the builder, checked under SpecBuilder.           *)
(***************************************************************************)
\* the ids the parser gives to the entities of some version of the file
EntityIdsOf(p) == UNION {IdsOf(Range(extract_entities(p, c))) : c \in ContentsOf(p)}

UpdatingOrUpdated(p) ==
    \/ pc \in UpdatePcs /\ loc.path = p
    \/ pc = "idle" /\ last.op = "updated" /\ last.path = p

\* C24: during the builder's update of a file and after it, every edge in the
\* store that starts at an entity id of that file starts at an entity whose row is
\* in the store.
C24_NoEdgeWithoutItsSource ==
    \A p \in Paths :
        UpdatingOrUpdated(p) =>
            \A e \in edges :
                e.source_id \in EntityIdsOf(p) => e.source_id \in IdsOf(entities)

(***************************************************************************)
(* The Structural Parser on syntax trees.  A node has a type, a name (of   *)
(* the definition, the callee or the caught exception), for a call the     *)
(* type of its function child, the base classes, and its children.         *)
(* tree-sitter's tokens and blocks are left out: a definition's children   *)
(* are the statements of its body.                                         *)
(***************************************************************************)
Node(type, name, kind, bases, children) ==
    [type |-> type, name |-> name, kind |-> kind, bases |-> bases, children |-> children]

\* g(), x.m()
Call(kind, name) == Node("call", name, kind, << >>, << >>)

\* raise T("..."): the raise statement holds the call T(...)
Raise(T) == Node("raise_statement", None, None, << >>, << Call("identifier", T) >>)

\* try: ... except T: raise
Reraise(T) ==
    Node("try_statement", None, None, << >>,
         << Node("except_clause", T, None, << >>,
                 << Node("raise_statement", None, None, << >>, << >>) >>) >>)

Function(name, body) == Node("function_definition", name, None, << >>, body)

Class(name, bases, body) == Node("class_definition", name, None, bases, body)

MethodId(path, class_name, name) == "method:" \o path \o ":" \o class_name \o "." \o name

Entity(id, path, name) ==
    [id |-> id, file_path |-> path, data |-> name, embedding |-> NoEmbedding]

\* parser.py lines 79-127
extract_function(path, node, parent_class) ==
    IF parent_class # None
    THEN Entity(MethodId(path, parent_class, node.name), path, node.name)
    ELSE Entity(FuncId(path, node.name), path, node.name)

\* lines 129-162
extract_class(path, node) == Entity(ClassId(path, node.name), path, node.name)

RECURSIVE walk_tree(_, _, _), walk_tree_children(_, _, _)

\* lines 59-74
walk_tree(path, node, parent_class) ==
    IF node.type = "function_definition"
    THEN << extract_function(path, node, parent_class) >>
    ELSE IF node.type = "class_definition"
    THEN << extract_class(path, node) >> \o walk_tree_children(path, node.children, node.name)
    ELSE walk_tree_children(path, node.children, parent_class)

\* for child in node.children: walk_tree(child, ...)
walk_tree_children(path, nodes, parent_class) ==
    IF nodes = << >> THEN << >>
    ELSE walk_tree(path, Head(nodes), parent_class)
            \o walk_tree_children(path, Tail(nodes), parent_class)

RECURSIVE walk_edges(_, _, _), walk_children(_, _, _)

\* walk of _extract_edges, lines 198-366, for the nodes above: definitions push onto entity_stack, a class
\* adds its INHERITS edges, a call inside a definition adds a CALLS edge, and every
\* other node, a raise statement included, only has its children walked
walk_edges(path, node, entity_stack) ==
    IF node.type = "function_definition"
    THEN LET entity_id ==
                 IF entity_stack # << >> /\ entity_stack[Len(entity_stack)].type = "class"
                 THEN MethodId(path, entity_stack[Len(entity_stack)].name, node.name)
                 ELSE FuncId(path, node.name)
         IN  walk_children(path, node.children,
                 Append(entity_stack, [type |-> "function", id |-> entity_id,
                                       name |-> node.name]))
    ELSE IF node.type = "class_definition"
    THEN [i \in 1..Len(node.bases) |->
             EdgeRow(ClassId(path, node.name), "INHERITS", ClassId(path, node.bases[i]), None)]
            \o walk_children(path, node.children,
                  Append(entity_stack, [type |-> "class", id |-> ClassId(path, node.name),
                                        name |-> node.name]))
    ELSE IF node.type = "call"
    THEN (IF entity_stack = << >> THEN << >>
          ELSE << EdgeRow(entity_stack[Len(entity_stack)].id, "CALLS",
                          IF node.kind = "identifier"
                          THEN FuncId(path, node.name)
                          ELSE MethodId(path, "*", node.name), None) >>)
            \o walk_children(path, node.children, entity_stack)
    ELSE walk_children(path, node.children, entity_stack)

\* for child in node.children: walk(child)
walk_children(path, nodes, entity_stack) ==
    IF nodes = << >> THEN << >>
    ELSE walk_edges(path, Head(nodes), entity_stack) \o walk_children(path, Tail(nodes), entity_stack)

\* lines 35-49: the result of parse_file
parse_file(path, tree) ==
    [entities |-> walk_tree(path, tree, None), edges |-> walk_edges(path, tree, << >>),
     file_path |-> path]

(***************************************************************************)
(* SpecParse: a file is parsed, indexed into an empty store, and traversed *)
(* from one of its functions and up from one of its methods.               *)
(***************************************************************************)
Statements == {Call("identifier", "g"), Call("attribute", "m"), Raise("ValueError"),
               Reraise("KeyError")}

\* the statements with definitions nested at most k deep
RECURSIVE Nested(_)
Nested(k) ==
    IF k = 0 THEN Statements
    ELSE Statements
            \cup {Function(name, << s >>) : name \in {"f", "m"}, s \in Nested(k - 1)}
            \cup {Class("C", bases, << s >>) : bases \in {<< >>, << "B" >>}, s \in Nested(k - 1)}

Module(body) == Node("module", None, None, << >>, body)

\* modules of one statement, or of a statement nested at most once and another
Trees ==
    {Module(<< s >>) : s \in Nested(MaxNesting)}
       \cup {Module(<< s, t >>) : s \in Nested(1), t \in Nested(MaxNesting)}

NoParse == [stage |-> "none"]

Parse(tree) ==
    /\ parsed.stage = "none"
    /\ parsed' = [stage |-> "parsed", tree |-> tree, result |-> parse_file("f1.py", tree)]
    /\ UNCHANGED <<storeVars, walk>>

\* build_initial_index, watcher.py lines 297-313, for the one file
Index ==
    /\ parsed.stage = "parsed"
    /\ entities' = IF parsed.result.entities # << >>
                   THEN upsert_entities_batch(entities,
                                              embed_entities_batch(parsed.result.entities))
                   ELSE entities
    /\ edges' = IF parsed.result.edges # << >>
                THEN upsert_edges_batch(edges, parsed.result.edges)
                ELSE edges
    /\ parsed' = [parsed EXCEPT !.stage = "indexed"]
    /\ UNCHANGED <<skeletons, walk>>

StoreNodes ==
    IdsOf(entities) \cup {e.source_id : e \in edges} \cup {e.target_id : e \in edges}

\* traverse_downstream(f, depth) and traverse_upstream(m, depth) on the indexed file
Traverse(f, m, depth) ==
    /\ parsed.stage = "indexed"
    /\ ~walk.called
    /\ \E callees \in EdgeOrders(edges, StoreNodes), callers \in CallerOrders(edges, StoreNodes) :
          walk' = [called |-> TRUE, answered |-> TRUE, e |-> f, f |-> m, given |-> depth,
                   max_depth |-> max_traversal_depth,
                   down |-> traverse_downstream(entities, callees, f, depth,
                                                max_traversal_depth),
                   up |-> traverse_upstream(entities, callers, m, depth,
                                            max_traversal_depth)]
    /\ UNCHANGED <<storeVars, parsed>>

InitParse ==
    /\ StoreEmpty /\ BuilderIdle /\ StoreHistIdle /\ DebounceIdle
    /\ trace = << >>
    /\ walk = NoWalk
    /\ SkeletonIdle /\ SearchIdle /\ FaultIdle
    /\ ToolIdle
    /\ parsed = NoParse
    /\ LifeIdle

NextParse ==
    /\ \/ \E tree \in Trees : Parse(tree)
       \/ Index
       \/ \E f, m \in IdsOf(entities), depth \in 1..max_traversal_depth : Traverse(f, m, depth)
    /\ UNCHANGED <<builderVars, storeHist, debounceVars, trace, skeletonVars, searchVars,
                   faultVars, tool, life>>

SpecParse == InitParse /\ [][NextParse]_vars

\* the top-level definitions of the module with a statement s directly in their body
TopLevel(type, s) ==
    {d.name : d \in {x \in Range(parsed.tree.children) :
                        x.type = type /\ s \in Range(x.children)}}

\* C23: a function whose body holds raise T(...) has the edge (its id,
\* PROPAGATES_ERROR, exc:T) among the edges of the parse, and so has one whose body
\* holds a bare raise in an except T handler.
C23_RaiseGivesPropagatesError ==
    parsed.stage # "none" =>
        /\ \A name \in TopLevel("function_definition", Raise("ValueError")) :
              EdgeRow(FuncId("f1.py", name), "PROPAGATES_ERROR", "exc:ValueError", None)
                  \in Range(parsed.result.edges)
        /\ \A name \in TopLevel("function_definition", Reraise("KeyError")) :
              EdgeRow(FuncId("f1.py", name), "PROPAGATES_ERROR", "exc:KeyError", None)
                  \in Range(parsed.result.edges)

\* C28: every edge of a parse starts at the id of an entity of the same parse.
C28_EdgeSourcesAreEntities ==
    parsed.stage # "none" =>
        \A e \in Range(parsed.result.edges) :
            e.source_id \in IdsOf(Range(parsed.result.entities))

\* C29: when a function f of the file holds a call x.m() and a class of the file
\* defines a method m, the downstream traversal from f, at depth 1 or more, has the
\* method among its entities, and the upstream traversal from the method has f.
C29_MethodCallReachesMethod ==
    walk.called =>
        \A f \in TopLevel("function_definition", Call("attribute", "m")),
           c \in TopLevel("class_definition", Function("m", << Call("identifier", "g") >>)) :
            (walk.e = FuncId("f1.py", f) /\ walk.f = MethodId("f1.py", c, "m")) =>
                /\ \E x \in walk.down.entities : x.id = walk.f
                /\ \E x \in walk.up.entities : x.id = walk.e

(***************************************************************************)
(* SpecWatch: the debounce processor while the watcher keeps running, with *)
(* callbacks that can raise.  Events stop arriving one window before the   *)
(* clock's end, and the loop's sleep is over when the clock ends.  The     *)
(* loop thread and the clock are scheduled fairly.                         *)
(***************************************************************************)
NoRaise == [raised |-> FALSE, failed |-> {}, after |-> {}]

Arrive(p, t) ==
    /\ now + DebounceDelay <= MaxTime
    /\ QueueEvent(p, t)
    /\ UNCHANGED fault

\* the exception leaves process_pending_events and ends the processor thread: the
\* entries already taken out of pending_events are lost
CallbackRaisesUncaught ==
    /\ to_process # << >>
    /\ to_process' = << >>
    /\ wake' = MaxTime + 1
    /\ fault' = [fault EXCEPT !.raised = FALSE, !.failed = @ \cup {Head(to_process).path}]
    /\ UNCHANGED <<now, pending_events, burst, calls>>

\* watcher.py lines 71-74: the callback raises, the exception is logged and the
\* loop over to_process goes on
CallbackRaises ==
    /\ Callback
    /\ fault' = [fault EXCEPT !.raised = Len(to_process) > 1,
                              !.failed = @ \cup {Head(to_process).path}]

\* lines 71-72: the callback returns
CallbackReturns ==
    /\ Callback
    /\ fault' = [fault EXCEPT !.raised = @ /\ Len(to_process) > 1,
                              !.after = IF fault.raised
                                        THEN @ \cup {Head(to_process).path} ELSE @]

\* lines 159-164: the sleep of the loop is over by the time the clock ends
SleepEnds ==
    /\ now = MaxTime
    /\ wake > now
    /\ to_process = << >>
    /\ wake' = now
    /\ UNCHANGED <<now, pending_events, to_process, burst, calls, fault>>

InitWatch ==
    /\ StoreEmpty
    /\ BuilderIdle
    /\ StoreHistIdle
    /\ now = 0
    /\ wake = 0
    /\ pending_events = [p \in Paths |-> {}]
    /\ to_process = << >>
    /\ burst = [p \in Paths |-> NoBurst]
    /\ calls = [p \in Paths |-> NoCalls]
    /\ GraphIdle
    /\ SkeletonIdle /\ SearchIdle
    /\ fault = NoRaise
    /\ ToolsIdle

NextWatch ==
    /\ \/ \E p \in Paths, t \in EventTypes : Arrive(p, t)
       \/ Drain /\ UNCHANGED fault
       \/ CallbackReturns
       \/ CallbackRaises
       \/ Tick /\ UNCHANGED fault
       \/ SleepEnds
    /\ UNCHANGED <<storeVars, builderVars, storeHist, graphVars, skeletonVars, searchVars,
                   toolVars>>

\* the variables the processor, the clock and the callbacks change
watchVars == <<debounceVars, fault>>

SpecWatch ==
    /\ InitWatch
    /\ [][NextWatch]_vars
    /\ WF_watchVars(Drain /\ UNCHANGED fault)
    /\ WF_watchVars(CallbackReturns \/ CallbackRaises)
    /\ WF_watchVars(Tick /\ UNCHANGED fault)
    /\ WF_watchVars(SleepEnds)

\* C26: while the watcher runs, a path with a queued event is, once events for it
\* stop arriving, no longer pending and its callback has been invoked for the last
\* event queued, whether or not callbacks of other paths raise.
C26_QueuedPathIsInvoked ==
    \A p \in Paths :
        (pending_events[p] # {}) ~>
            (pending_events[p] = {} /\ ~InFlight(p) /\ calls[p].burst_time = burst[p].last_time)

\* the callback of one path raised and the callback of another path, drained in the
\* same tick after it, was invoked
C26_Witness ==
    \E p, q \in Paths :
        /\ p # q
        /\ p \in fault.failed
        /\ q \in fault.after
        /\ calls[q].at = calls[p].at
        /\ calls[q].burst_time = burst[q].last_time
        /\ pending_events[q] = {}

(***************************************************************************)
(* SpecLife: start() and stop() of IncrementalGraphBuilder and the         *)
(* processor threads they create.  The main thread calls start() and       *)
(* stop(); each processor thread runs _processor_loop; the observer queues *)
(* events on the current event handler.  life.loops holds one entry per    *)
(* thread ever created, with its position in the loop and the to_process   *)
(* list of its current process_pending_events call.                        *)
(***************************************************************************)
\* start() calls that create a thread, at most
MaxStarts == 2

NoThread == 0

NoLife ==
    [running |-> FALSE, stop_event |-> FALSE, loops |-> << >>,
     processor_thread |-> NoThread, handler_events |-> << >>, main |-> "idle"]

Loop(at, todo) == [pc |-> at, to_process |-> todo]

\* watcher.py lines 114-116: start() on a running builder returns at once
StartWhileRunning ==
    /\ life.main = "idle"
    /\ life.running
    /\ life' = life

\* lines 118-134: running is set, stop_event cleared, a new handler with no pending
\* events replaces the old one and a new processor thread is started
Start ==
    /\ life.main = "idle"
    /\ ~life.running
    /\ Len(life.loops) < MaxStarts
    /\ life' = [life EXCEPT !.running = TRUE,
                            !.stop_event = FALSE,
                            !.handler_events = << >>,
                            !.loops = Append(@, Loop("check", << >>)),
                            !.processor_thread = Len(life.loops) + 1]

\* lines 140-144: stop() on a running builder clears running and sets stop_event
StopSignal ==
    /\ life.main = "idle"
    /\ life.running
    /\ life' = [life EXCEPT !.running = FALSE, !.stop_event = TRUE, !.main = "join"]

\* lines 140-141: stop() on a stopped builder returns at once
StopWhileStopped ==
    /\ life.main = "idle"
    /\ ~life.running
    /\ life' = life

\* lines 152-153: join(timeout=5.0) returns because the thread has ended
JoinEnds ==
    /\ life.main = "join"
    /\ life.loops[life.processor_thread].pc = "exited"
    /\ life' = [life EXCEPT !.main = "idle"]

\* lines 152-153: join(timeout=5.0) returns after the timeout while the thread is
\* still inside a callback
JoinTimesOut ==
    /\ life.main = "join"
    /\ life.loops[life.processor_thread].pc = "callback"
    /\ life' = [life EXCEPT !.main = "idle"]

\* lines 53-56: the observer queues an event on the current handler; the dict keeps
\* one entry per path, in the order of first insertion
ObserverQueues(p) ==
    /\ life.running
    /\ life' = [life EXCEPT !.handler_events =
                    IF \E i \in 1..Len(@) : @[i] = p THEN @ ELSE Append(@, p)]

\* line 159: the loop condition
LoopCheck(i) ==
    /\ life.loops[i].pc = "check"
    /\ life' = [life EXCEPT !.loops[i].pc =
                    IF life.running /\ ~life.stop_event THEN "drain" ELSE "exited"]

\* lines 160-161 and 60-67: the thread takes the pending events of self.event_handler,
\* the handler of the latest start()
LoopDrain(i) ==
    /\ life.loops[i].pc = "drain"
    /\ life' = [life EXCEPT !.loops[i] =
                    Loop(IF life.handler_events = << >> THEN "sleep" ELSE "callback",
                         life.handler_events),
                            !.handler_events = << >>]

\* lines 70-74: one callback of the thread's to_process list ends
LoopCallbackEnds(i) ==
    /\ life.loops[i].pc = "callback"
    /\ life' = [life EXCEPT !.loops[i] =
                    Loop(IF Len(@.to_process) = 1 THEN "sleep" ELSE "callback",
                         Tail(@.to_process))]

\* line 164: the sleep ends
LoopWakes(i) ==
    /\ life.loops[i].pc = "sleep"
    /\ life' = [life EXCEPT !.loops[i].pc = "check"]

InitLife ==
    /\ StoreEmpty
    /\ BuilderIdle
    /\ StoreHistIdle
    /\ DebounceIdle
    /\ GraphIdle
    /\ SkeletonIdle /\ SearchIdle
    /\ FaultIdle
    /\ ToolIdle /\ ParserIdle
    /\ life = NoLife

NextLife ==
    /\ \/ Start
       \/ StartWhileRunning
       \/ StopSignal
       \/ StopWhileStopped
       \/ JoinEnds
       \/ JoinTimesOut
       \/ \E p \in Paths : ObserverQueues(p)
       \/ \E i \in 1..Len(life.loops) :
            LoopCheck(i) \/ LoopDrain(i) \/ LoopCallbackEnds(i) \/ LoopWakes(i)
    /\ UNCHANGED <<storeVars, builderVars, storeHist, debounceVars, graphVars,
                   skeletonVars, searchVars, faultVars, tool, parsed>>

SpecLife == InitLife /\ [][NextLife]_vars

\* the threads that are running a re-index callback
InCallback == {i \in 1..Len(life.loops) : life.loops[i].pc = "callback"}

\* C27: whatever start() and stop() calls were made, at most one processor thread is
\* draining events at any time, so no two re-index callbacks run at the same time.
C27_OneProcessorLoop == Cardinality(InCallback) <= 1

====
